---- MODULE Spec2Model ----
(***************************************************************************)
(* ipynb-scrubber: the directive scanner, the cell classifier, the cell    *)
(* transformer and the document processor of                               *)
(* src/src/ipynb_scrubber/processor.py, the configuration of config.py and *)
(* the commands scrub-notebook and scrub-project of cli.py.                *)
(*                                                                         *)
(* A Python str is a sequence of tokens.  Punctuation and whitespace are   *)
(* one token per character ("#", "|", " ", ":", "\n", ...); a run of       *)
(* letters, digits and inner hyphens ("scrub-clear", "TODO") is one token, *)
(* because the code never looks inside such a run.                         *)
(***************************************************************************)
EXTENDS Integers, Sequences, FiniteSets, TLC

\* ------------------------------------------------------------------ str

\* str.strip() / lstrip() with no argument remove these characters.
IsSpace(c) == c \in {" ", "\t", "\r", "\n"}

RECURSIVE LStrip(_)
LStrip(s) ==
    IF s # <<>> /\ IsSpace(Head(s)) THEN LStrip(Tail(s)) ELSE s

RECURSIVE RStrip(_)
RStrip(s) ==
    IF s # <<>> /\ IsSpace(s[Len(s)]) THEN RStrip(SubSeq(s, 1, Len(s) - 1)) ELSE s

Strip(s) == RStrip(LStrip(s))

StartsWith(s, p) == Len(s) >= Len(p) /\ SubSeq(s, 1, Len(p)) = p

EndsWith(s, p) == Len(s) >= Len(p) /\ SubSeq(s, Len(s) - Len(p) + 1, Len(s)) = p

\* str.removesuffix: an empty suffix removes nothing.
RemoveSuffix(s, p) ==
    IF p # <<>> /\ EndsWith(s, p) THEN SubSeq(s, 1, Len(s) - Len(p)) ELSE s

\* str.find + 1: the first position at which p occurs in s, 0 when it does not.
IndexOf(s, p) ==
    LET hits == {k \in 1..(Len(s) - Len(p) + 1) : SubSeq(s, k, k + Len(p) - 1) = p}
    IN  IF hits = {} THEN 0 ELSE CHOOSE k \in hits : \A j \in hits : k <= j

Contains(s, p) == IndexOf(s, p) # 0

\* s.split(p, 1) for a p that occurs in s: the text before and after the first p.
SplitOnce(s, p) ==
    LET k == IndexOf(s, p)
    IN  <<SubSeq(s, 1, k - 1), SubSeq(s, k + Len(p), Len(s))>>

\* s.split('\n'): always at least one line.
RECURSIVE SplitLines(_)
SplitLines(s) ==
    LET k == IndexOf(s, <<"\n">>)
    IN  IF k = 0 THEN <<s>>
        ELSE <<SubSeq(s, 1, k - 1)>> \o SplitLines(SubSeq(s, k + 1, Len(s)))

\* ''.join(parts)
RECURSIVE Join(_)
Join(parts) ==
    IF parts = <<>> THEN <<>> ELSE Head(parts) \o Join(Tail(parts))

\* ------------------------------------------------------------ the scanner

\* A Cell (processor.py:8-13) is a dict.  form = "other" is a cell that is no
\* dict; a missing key is has_* = FALSE (source and metadata: form = "absent").
\*   source   : [form: "absent" | "str" | "list" | "other", parts: Seq(str)]
\*              (a str has one part; "other" is a value that is neither, e.g. null)
\*   metadata : [form: "absent" | "dict" | "other", has_tags, tags: set of str]

\* (False, None), (True, None), (True, text) of get_option_value.
NotDeclared == [enabled |-> FALSE, has_text |-> FALSE, text |-> <<>>]

DeclaredDefault == [enabled |-> TRUE, has_text |-> FALSE, text |-> <<>>]

DeclaredWith(text) == [enabled |-> TRUE, has_text |-> TRUE, text |-> text]

\* cell.get('cell_type')
CellType(cell) == IF cell.has_cell_type THEN cell.cell_type ELSE "None"

\* source = cell.get('source', ''); if isinstance(source, list): ''.join(source)
SourceText(cell) ==
    IF cell.source.form = "absent" THEN <<>> ELSE Join(cell.source.parts)

start_marker(cell_type) ==
    IF cell_type = "code" THEN <<"#", "|">> ELSE <<"<", "!", "-", "-">>

end_suffix(cell_type) ==
    IF cell_type = "code" THEN <<>> ELSE <<"-", "-", ">">>

\* trimmed[len(start_marker):].removesuffix(end_suffix).strip()
OptionPart(trimmed, marker, suffix) ==
    Strip(RemoveSuffix(SubSeq(trimmed, Len(marker) + 1, Len(trimmed)), suffix))

\* The loop without its break: a line of body text does not end the scan.
RECURSIVE ScanLines_NoBreak(_, _, _, _)
ScanLines_NoBreak(lines, marker, suffix, option) ==
    IF lines = <<>> THEN NotDeclared
    ELSE LET trimmed == Strip(Head(lines))
             option_part == OptionPart(trimmed, marker, suffix)
         IN  IF StartsWith(trimmed, marker)
             THEN IF Contains(option_part, <<":">>)
                  THEN LET kv == SplitOnce(option_part, <<":">>)
                       IN  IF Strip(kv[1]) = option
                           THEN DeclaredWith(LStrip(kv[2]))
                           ELSE ScanLines_NoBreak(Tail(lines), marker, suffix, option)
                  ELSE IF option_part = option
                       THEN DeclaredDefault
                       ELSE ScanLines_NoBreak(Tail(lines), marker, suffix, option)
             ELSE ScanLines_NoBreak(Tail(lines), marker, suffix, option)

\* The loop over the lines: a marker line that names the option returns, any other
\* marker line and any blank line continue, the first other line breaks.
RECURSIVE ScanLines(_, _, _, _)
ScanLines(lines, marker, suffix, option) ==
    IF lines = <<>> THEN NotDeclared
    ELSE LET trimmed == Strip(Head(lines))
             option_part == OptionPart(trimmed, marker, suffix)
         IN  IF StartsWith(trimmed, marker)
             THEN IF Contains(option_part, <<":">>)
                  THEN LET kv == SplitOnce(option_part, <<":">>)
                       IN  IF Strip(kv[1]) = option
                           THEN DeclaredWith(LStrip(kv[2]))
                           ELSE ScanLines(Tail(lines), marker, suffix, option)
                  ELSE IF option_part = option
                       THEN DeclaredDefault
                       ELSE ScanLines(Tail(lines), marker, suffix, option)
             ELSE IF trimmed # <<>>
                  THEN NotDeclared
                  ELSE ScanLines(Tail(lines), marker, suffix, option)

\* get_option_value raises (AttributeError) when the source of a code or markdown
\* cell is neither a str nor a list: source.split is looked up on it.
get_option_value_raises(cell) ==
    \/ cell.form # "dict"
    \/ CellType(cell) \in {"code", "markdown"} /\ cell.source.form = "other"

\* A raw cell is scanned too, in the syntax of a markdown cell.
get_option_value_ScansRaw(cell, option) ==
    IF CellType(cell) \notin {"code", "markdown", "raw"} THEN NotDeclared
    ELSE ScanLines(SplitLines(SourceText(cell)), start_marker(CellType(cell)),
                   end_suffix(CellType(cell)), option)

get_option_value(cell, option) ==
    IF CellType(cell) \notin {"code", "markdown"} THEN NotDeclared
    ELSE ScanLines(SplitLines(SourceText(cell)), start_marker(CellType(cell)),
                   end_suffix(CellType(cell)), option)

\* --------------------------------------------------------- the classifier

\* cell.get('metadata', {}).get('tags', [])
Tags(cell) ==
    IF cell.metadata.form = "dict" /\ cell.metadata.has_tags
    THEN cell.metadata.tags ELSE {}

\* .get is looked up on a metadata value that is no dict.
tags_raises(cell) == cell.form # "dict" \/ cell.metadata.form = "other"

should_omit_cell_raises(cell) == tags_raises(cell) \/ get_option_value_raises(cell)

\* Omit gives way to the clear tag.
should_omit_cell_UnlessCleared(cell, omit_tag) ==
    /\ omit_tag \in Tags(cell) \/ get_option_value(cell, omit_tag).enabled
    /\ <<"scrub-clear">> \notin Tags(cell)

should_omit_cell(cell, omit_tag) ==
    omit_tag \in Tags(cell) \/ get_option_value(cell, omit_tag).enabled

should_clear_cell_raises(cell) == get_option_value_raises(cell) \/ tags_raises(cell)

\* The tag is looked at first: a tagged cell is cleared with the default text.
should_clear_cell_TagFirst(cell, clear_tag) ==
    IF clear_tag \in Tags(cell) THEN DeclaredDefault
    ELSE IF CellType(cell) \in {"code", "markdown"}
         THEN get_option_value(cell, clear_tag)
         ELSE NotDeclared

\* (should_clear, custom_text) as a get_option_value result.
should_clear_cell(cell, clear_tag) ==
    IF /\ CellType(cell) \in {"code", "markdown"}
       /\ get_option_value(cell, clear_tag).enabled
    THEN get_option_value(cell, clear_tag)
    ELSE IF clear_tag \in Tags(cell) THEN DeclaredDefault ELSE NotDeclared

\* note_info: None, or (note_id, replacement) with replacement possibly None.
NoNote == [given |-> FALSE, note_id |-> <<>>, has_replacement |-> FALSE,
           replacement |-> <<>>]

NoteInfo(note_id, has_replacement, replacement) ==
    [given |-> TRUE, note_id |-> note_id, has_replacement |-> has_replacement,
     replacement |-> replacement]

should_note_cell_raises(cell) ==
    cell.form # "dict" \/ (CellType(cell) = "code" /\ get_option_value_raises(cell))

\* The note directive is read from a cell of any kind.
should_note_cell_AnyKind(cell, note_tag) ==
    LET r == get_option_value(cell, note_tag)
        sep == <<" ", "|", " ">>
    IN  IF ~r.enabled \/ ~r.has_text THEN NoNote
        ELSE LET info ==
                     IF Contains(r.text, sep)
                     THEN NoteInfo(Strip(SplitOnce(r.text, sep)[1]), TRUE,
                                   Strip(SplitOnce(r.text, sep)[2]))
                     ELSE NoteInfo(Strip(r.text), FALSE, <<>>)
             IN  IF info.note_id = <<>> THEN NoNote ELSE info

\* A directive without an identifier notes the cell under the empty identifier.
should_note_cell_EmptyId(cell, note_tag) ==
    IF CellType(cell) # "code" THEN NoNote
    ELSE LET r == get_option_value(cell, note_tag)
             sep == <<" ", "|", " ">>
         IN  IF ~r.enabled THEN NoNote
             ELSE IF Contains(r.text, sep)
                  THEN NoteInfo(Strip(SplitOnce(r.text, sep)[1]), TRUE,
                                Strip(SplitOnce(r.text, sep)[2]))
                  ELSE NoteInfo(Strip(r.text), FALSE, <<>>)

\* should_note is note_info.given: the code returns (True, info) or (False, None).
should_note_cell(cell, note_tag) ==
    IF CellType(cell) # "code" THEN NoNote
    ELSE LET r == get_option_value(cell, note_tag)
             sep == <<" ", "|", " ">>
         IN  IF ~r.enabled \/ ~r.has_text THEN NoNote
             ELSE LET info ==
                          IF Contains(r.text, sep)
                          THEN NoteInfo(Strip(SplitOnce(r.text, sep)[1]), TRUE,
                                        Strip(SplitOnce(r.text, sep)[2]))
                          ELSE NoteInfo(Strip(r.text), FALSE, <<>>)
                  IN  IF info.note_id = <<>> THEN NoNote ELSE info

\* -------------------------------------------------------- the transformer

StrSource(text) == [form |-> "str", parts |-> <<text>>]

\* f'\n# (See notes: {note_id})\n'
NoteReference(note_id) ==
    <<"\n", "#", " ", "(", "See", " ", "notes", ":", " ">> \o note_id \o <<")", "\n">>

\* Only the outputs are popped.
PopExecutionState_OutputsOnly(cell) == [cell EXCEPT !.has_outputs = FALSE]

\* cell.pop('outputs', None); cell.pop('execution_count', None)
PopExecutionState(cell) ==
    [cell EXCEPT !.has_outputs = FALSE, !.has_execution_count = FALSE]

\* The note path always writes the default text.
NoteSubstitution_IgnoresReplacement(cell, options, note_info) ==
    [cell EXCEPT !.source = StrSource(
        options.clear_text \o NoteReference(note_info.note_id))]

\* The note path (lines 243-251).
NoteSubstitution(cell, options, note_info) ==
    [cell EXCEPT !.source = StrSource(
        (IF note_info.has_replacement THEN note_info.replacement
         ELSE options.clear_text) \o NoteReference(note_info.note_id))]

\* The clear path without the forced newline.
ClearSubstitution_NoNewline(cell, options) ==
    LET c == should_clear_cell(cell, options.clear_tag)
    IN  IF c.enabled
        THEN [cell EXCEPT !.source = StrSource(
                 IF c.has_text THEN c.text ELSE options.clear_text)]
        ELSE cell

\* The clear path adds the replacement text to the content.
ClearSubstitution_Appends(cell, options) ==
    LET c == should_clear_cell(cell, options.clear_tag)
    IN  IF c.enabled
        THEN [cell EXCEPT !.source = StrSource(
                 SourceText(cell)
                     \o (IF c.has_text THEN c.text ELSE options.clear_text) \o <<"\n">>)]
        ELSE cell

\* A cell that is not cleared has its content joined into one string.
ClearSubstitution_JoinsKept(cell, options) ==
    LET c == should_clear_cell(cell, options.clear_tag)
    IN  [cell EXCEPT !.source = StrSource(
            IF c.enabled
            THEN (IF c.has_text THEN c.text ELSE options.clear_text) \o <<"\n">>
            ELSE SourceText(cell))]

\* The clear path (lines 254-257).
ClearSubstitution(cell, options) ==
    LET c == should_clear_cell(cell, options.clear_tag)
    IN  IF c.enabled
        THEN [cell EXCEPT !.source = StrSource(
                 (IF c.has_text THEN c.text ELSE options.clear_text) \o <<"\n">>)]
        ELSE cell

process_cell_raises(cell, note_info) ==
    cell.form # "dict" \/ (~note_info.given /\ should_clear_cell_raises(cell))

\* Clear is looked at before the note: a cell that carries clear is cleared.
process_cell_ClearFirst(cell, options, note_info) ==
    IF should_clear_cell(cell, options.clear_tag).enabled
    THEN ClearSubstitution(PopExecutionState(cell), options)
    ELSE IF note_info.given
         THEN NoteSubstitution(PopExecutionState(cell), options, note_info)
         ELSE PopExecutionState(cell)

\* The cell object after process_cell (the cell is changed in place and returned).
process_cell(cell, options, note_info) ==
    IF note_info.given
    THEN NoteSubstitution(PopExecutionState(cell), options, note_info)
    ELSE ClearSubstitution(PopExecutionState(cell), options)

\* ------------------------------------------------------------- validation

\* One pass of the loop of validate_notebook (lines 110-123).
ValidCell(cell) ==
    /\ cell.form = "dict"
    /\ cell.has_cell_type
    /\ cell.cell_type \in {"code", "markdown", "raw"}

\* Validation without the loop over the cells.
validate_notebook_SkipsCells(nb, h) ==
    /\ nb.form = "dict"
    /\ nb.has_cells
    /\ nb.cells_is_list

\* validate_notebook returns (TRUE) or raises InvalidNotebookError (FALSE).  nb.cells
\* holds references into the heap of cell objects h.
validate_notebook(nb, h) ==
    /\ nb.form = "dict"
    /\ nb.has_cells
    /\ nb.cells_is_list
    /\ \A k \in 1..Len(nb.cells) : ValidCell(h[nb.cells[k]])

\* ------------------------------------------------------------- the inputs

\* ScrubbingOptions defaults (config.py:61-63, cli.py:123).
clear_tag_default == <<"scrub-clear">>

omit_tag_default == <<"scrub-omit">>

note_tag_default == <<"scrub-note">>

clear_text_default == <<"#", " ", "TODO", ":", " ", "Implement", " ", "this">>

\* The options object process_notebook is given.  The dataclass declares
\* clear_tag, clear_text and omit_tag; process_notebook also reads
\* options.note_tag, which an options object carries (has_note_tag) or not.
OptionsInputs ==
    [clear_tag : {clear_tag_default},
     clear_text : {clear_text_default, <<"pass">>},
     omit_tag : {omit_tag_default},
     has_note_tag : BOOLEAN,
     note_tag : {note_tag_default}]

\* Lines of cell content.
Code(directive) == <<"#", "|", " ">> \o directive

Html(directive) == <<"<", "!", "-", "-", " ">> \o directive \o <<" ", "-", "-", ">">>

Body == <<"secret", "(", ")">>

WithValue(name, value) == name \o <<":", " ">> \o value

\* 'line1\nline2...'
RECURSIVE Lines(_)
Lines(ls) ==
    IF Len(ls) <= 1 THEN Join(ls) ELSE Head(ls) \o <<"\n">> \o Lines(Tail(ls))

List(parts) == [form |-> "list", parts |-> parts]

AbsentSource == [form |-> "absent", parts |-> <<>>]

OtherSource == [form |-> "other", parts |-> <<>>]

TagsOf(tags) == [form |-> "dict", has_tags |-> TRUE, tags |-> tags]

NoTags == [form |-> "dict", has_tags |-> FALSE, tags |-> {}]

AbsentMetadata == [form |-> "absent", has_tags |-> FALSE, tags |-> {}]

OtherMetadata == [form |-> "other", has_tags |-> FALSE, tags |-> {}]

MkCell(cell_type, source, metadata, executed) ==
    [form |-> "dict", has_cell_type |-> TRUE, cell_type |-> cell_type,
     source |-> source, metadata |-> metadata,
     has_outputs |-> executed, has_execution_count |-> executed]

clr == clear_tag_default

omt == omit_tag_default

nte == note_tag_default

CodeCells ==
    { MkCell("code", StrSource(Body), NoTags, TRUE),
      MkCell("code", StrSource(Body), TagsOf({clr}), TRUE),
      MkCell("code", StrSource(Body), TagsOf({omt}), TRUE),
      MkCell("code", StrSource(Body), TagsOf({clr, omt}), TRUE),
      MkCell("code", StrSource(Lines(<<Code(clr), Body>>)), NoTags, TRUE),
      MkCell("code", StrSource(Lines(<<Code(WithValue(clr, <<"X">>)), Body>>)), NoTags, FALSE),
      MkCell("code", StrSource(Lines(<<Code(clr \o <<":">>), Body>>)), NoTags, FALSE),
      MkCell("code", StrSource(Lines(<<Code(omt), Body>>)), NoTags, TRUE),
      MkCell("code", StrSource(Lines(<<Code(omt), Code(WithValue(clr, <<"X">>)), Body>>)),
             NoTags, FALSE),
      MkCell("code", StrSource(Lines(<<Code(WithValue(nte, <<"a">>)), Body>>)), NoTags, TRUE),
      MkCell("code", List(<<Code(WithValue(nte, <<"a", " ", "|", " ", "#", " ", "HERE">>))
                              \o <<"\n">>,
                            Body>>), NoTags, TRUE),
      MkCell("code", StrSource(Lines(<<Code(WithValue(nte, <<"a">>)),
                                       Code(WithValue(clr, <<"X">>)), Body>>)),
             NoTags, FALSE),
      MkCell("code", AbsentSource, AbsentMetadata, FALSE) }

MarkdownCells ==
    { MkCell("markdown", StrSource(Body), NoTags, FALSE),
      MkCell("markdown", StrSource(Body), TagsOf({clr}), TRUE),
      MkCell("markdown", StrSource(Lines(<<Html(WithValue(clr, <<"X">>)), Body>>)), NoTags, FALSE),
      MkCell("markdown", StrSource(Lines(<<Html(omt), Body>>)), NoTags, FALSE) }

\* A raw cell takes its directives from its tags only.
RawCells ==
    { MkCell("raw", StrSource(Body), TagsOf({clr}), TRUE),
      MkCell("raw", StrSource(Body), TagsOf({omt}), FALSE),
      MkCell("raw", StrSource(Lines(<<Code(omt), Body>>)), NoTags, FALSE) }

\* Cells that pass validation and make the iteration raise.
RaisingCells ==
    { MkCell("code", StrSource(Body), OtherMetadata, TRUE),
      MkCell("markdown", OtherSource, NoTags, FALSE) }

\* Cells validate_notebook rejects: no dict, no cell_type, an unknown cell_type.
InvalidCells ==
    { [MkCell("code", StrSource(Body), NoTags, FALSE) EXCEPT !.form = "other"],
      [MkCell("code", StrSource(Body), NoTags, TRUE) EXCEPT !.has_cell_type = FALSE],
      MkCell("invalid_type", StrSource(Lines(<<Code(clr), Body>>)), NoTags, TRUE) }

CellInputs == CodeCells \cup MarkdownCells \cup RawCells \cup RaisingCells \cup InvalidCells

\* The longest cell list of an input document.
MaxCells == 2

\* Document metadata before the call: some other key, and exercise_version unset.
MetadataInput == [kernelspec |-> "python3", exercise_version |-> FALSE]

\* A document whose 'cells' is a list of n cells, with or without 'metadata'.
DocWithCells(n, has_metadata) ==
    [form |-> "dict", has_cells |-> TRUE, cells_is_list |-> TRUE,
     cells |-> [k \in 1..n |-> k], has_metadata |-> has_metadata,
     metadata |-> MetadataInput]

\* Documents validate_notebook rejects before it looks at a cell.
MalformedDocs ==
    { [DocWithCells(0, TRUE) EXCEPT !.form = "other"],
      [DocWithCells(0, TRUE) EXCEPT !.has_cells = FALSE],
      [DocWithCells(0, TRUE) EXCEPT !.cells_is_list = FALSE] }

\* ------------------------------------------------- the document processor

VARIABLES
    notebook,         \* the document object process_notebook was given
    heap,             \* the cell objects: notebook.cells and processed_cells refer to them
    options,          \* the options object
    pc,               \* "validate", "iterate", or how the call ended:
                      \* "returned", "InvalidNotebookError", "ProcessingError"
    idx,              \* the position of the for loop in notebook['cells']
    processed_cells,  \* the list being built (references to cell objects)
    notes_dict,       \* the dict being built, in insertion order: <<[key, cell_type, source]>>
    given,            \* the document and its cells as they were before the call
    scan,             \* one call of get_option_value: its cell, its option, its result
    twice,            \* two calls of process_cell in a row: the cell after each
    args,             \* the parsed command line of a run of the CLI
    config_file,      \* the config file a scrub-project run uses, and what it holds
    config,           \* the ProjectConfig of a scrub-project run
    file_entry,       \* the position of the for loop in config.files
    files,            \* the file system (and stdin, stdout): path -> content
    io,               \* the reads and writes of documents so far, in order
    stderr,           \* the messages printed to stderr so far
    status,           \* the exit status of the run: "running", then "0" or "1"
    step              \* the position of the command handler

\* The variables of a run of the CLI.
cmd == <<args, config_file, config, file_entry, files, io, stderr, status, step>>

vars == <<notebook, heap, options, pc, idx, processed_cells, notes_dict, given, scan,
          twice, cmd>>

\* The first value stored under a key is kept (dict.setdefault).
DictSet_KeepsFirst(d, key, cell_type, source) ==
    IF \E k \in 1..Len(d) : d[k].key = key
    THEN d
    ELSE Append(d, [key |-> key, cell_type |-> cell_type, source |-> source])

\* A key that is set again moves to the end.
DictSet_MovesToEnd(d, key, cell_type, source) ==
    Append(SelectSeq(d, LAMBDA e : e.key # key),
           [key |-> key, cell_type |-> cell_type, source |-> source])

\* notes_dict[key] = (cell_type, source): a new key is appended, an existing key
\* keeps its position and takes the new value.
DictSet(d, key, cell_type, source) ==
    LET entry == [key |-> key, cell_type |-> cell_type, source |-> source]
    IN  IF \E k \in 1..Len(d) : d[k].key = key
        THEN [k \in 1..Len(d) |-> IF d[k].key = key THEN entry ELSE d[k]]
        ELSE Append(d, entry)

DictKeys(d) == {d[k].key : k \in 1..Len(d)}

DictGet(d, key) == d[CHOOSE k \in 1..Len(d) : d[k].key = key]

InitWith(nb, cells, opts) ==
    /\ notebook = nb
    /\ heap = cells
    /\ options = opts
    /\ pc = "validate"
    /\ idx = 1
    /\ processed_cells = <<>>
    /\ notes_dict = <<>>
    /\ given = [notebook |-> nb, heap |-> cells]

\* No run of the CLI: the function is called directly.
NoCommand ==
    /\ args = [command |-> "none"]
    /\ config_file = [explicit |-> FALSE, name |-> "None"]
    /\ config = [loaded |-> FALSE]
    /\ file_entry = 0
    /\ files = <<>>
    /\ io = <<>>
    /\ stderr = <<>>
    /\ status = "running"
    /\ step = "none"

\* No call of get_option_value on its own.
NoScan == [cell |-> MkCell("raw", AbsentSource, AbsentMetadata, FALSE),
           option |-> <<>>, done |-> FALSE, result |-> NotDeclared]

\* No two calls of process_cell on their own.
NoTwice == [calls |-> 0]

\* The call is given any options and a document of up to MaxCells cells, with or
\* without 'metadata', or a document that is malformed as a whole.
Init ==
    /\ scan = NoScan
    /\ twice = NoTwice
    /\ NoCommand
    /\ \E opts \in OptionsInputs :
           \/ \E n \in 0..MaxCells, has_metadata \in BOOLEAN :
                  \E cells \in [1..n -> CellInputs] :
                      InitWith(DocWithCells(n, has_metadata), cells, opts)
           \/ \E nb \in MalformedDocs : InitWith(nb, <<>>, opts)

\* Line 281: validate_notebook(notebook), outside the try.
Validate ==
    /\ pc = "validate"
    /\ pc' = IF validate_notebook(notebook, heap) THEN "iterate" ELSE "InvalidNotebookError"
    /\ UNCHANGED <<notebook, heap, options, idx, processed_cells, notes_dict, given, scan, twice>>
    /\ UNCHANGED cmd

AtCell == pc = "iterate" /\ idx <= Len(notebook.cells)

ref == notebook.cells[idx]

cell == heap[ref]

\* An exception in the loop body: should_omit_cell raises on the cell, or the cell
\* is not omitted and options has no note_tag (line 293).  Lines 314-315.
IterateRaises ==
    /\ AtCell
    /\ \/ should_omit_cell_raises(cell)
       \/ /\ ~should_omit_cell(cell, options.omit_tag)
          /\ \/ ~options.has_note_tag
             \/ should_note_cell_raises(cell)
             \/ process_cell_raises(cell, should_note_cell(cell, options.note_tag))
    /\ pc' = "ProcessingError"
    /\ UNCHANGED <<notebook, heap, options, idx, processed_cells, notes_dict, given, scan, twice>>
    /\ UNCHANGED cmd

\* The omitted cell is not skipped: no continue.
OmitCell_Appends ==
    /\ AtCell
    /\ ~should_omit_cell_raises(cell)
    /\ should_omit_cell(cell, options.omit_tag)
    /\ processed_cells' = Append(processed_cells, ref)
    /\ idx' = idx + 1
    /\ UNCHANGED <<notebook, heap, options, pc, notes_dict, given, scan, twice>>
    /\ UNCHANGED cmd

\* The note of an omitted cell is captured before the cell is dropped.
OmitCell_CapturesNote ==
    /\ AtCell
    /\ ~should_omit_cell_raises(cell)
    /\ should_omit_cell(cell, options.omit_tag)
    /\ notes_dict' = IF should_note_cell(cell, options.note_tag).given
                      THEN DictSet(notes_dict, should_note_cell(cell, options.note_tag).note_id,
                                   cell.cell_type, SourceText(cell))
                      ELSE notes_dict
    /\ idx' = idx + 1
    /\ UNCHANGED <<notebook, heap, options, pc, processed_cells, given, scan, twice>>
    /\ UNCHANGED cmd

\* Lines 289-290: continue.
OmitCell ==
    /\ AtCell
    /\ ~should_omit_cell_raises(cell)
    /\ should_omit_cell(cell, options.omit_tag)
    /\ idx' = idx + 1
    /\ UNCHANGED <<notebook, heap, options, pc, processed_cells, notes_dict, given, scan, twice>>
    /\ UNCHANGED cmd

Survives ==
    /\ AtCell
    /\ ~should_omit_cell_raises(cell)
    /\ ~should_omit_cell(cell, options.omit_tag)
    /\ options.has_note_tag

\* The note is captured after process_cell has rewritten the cell.
NoteCell_CapturesAfter ==
    /\ Survives
    /\ should_note_cell(cell, options.note_tag).given
    /\ heap' = [heap EXCEPT
                  ![ref] = process_cell(cell, options, should_note_cell(cell, options.note_tag))]
    /\ notes_dict' = DictSet(notes_dict,
                             should_note_cell(cell, options.note_tag).note_id,
                             IF cell.has_cell_type THEN cell.cell_type ELSE "code",
                             SourceText(heap'[ref]))
    /\ processed_cells' = Append(processed_cells, ref)
    /\ idx' = idx + 1
    /\ UNCHANGED <<notebook, options, pc, given, scan, twice>>
    /\ UNCHANGED cmd

\* The note is recorded and the cell is processed without its note_info.
NoteCell_NoReference ==
    /\ Survives
    /\ should_note_cell(cell, options.note_tag).given
    /\ notes_dict' = DictSet(notes_dict,
                             should_note_cell(cell, options.note_tag).note_id,
                             IF cell.has_cell_type THEN cell.cell_type ELSE "code",
                             SourceText(cell))
    /\ heap' = [heap EXCEPT ![ref] = process_cell(cell, options, NoNote)]
    /\ processed_cells' = Append(processed_cells, ref)
    /\ idx' = idx + 1
    /\ UNCHANGED <<notebook, options, pc, given, scan, twice>>
    /\ UNCHANGED cmd

\* Lines 294-307.
NoteCell ==
    /\ Survives
    /\ should_note_cell(cell, options.note_tag).given
    /\ notes_dict' = DictSet(notes_dict,
                             should_note_cell(cell, options.note_tag).note_id,
                             IF cell.has_cell_type THEN cell.cell_type ELSE "code",
                             SourceText(cell))
    /\ heap' = [heap EXCEPT
                  ![ref] = process_cell(cell, options, should_note_cell(cell, options.note_tag))]
    /\ processed_cells' = Append(processed_cells, ref)
    /\ idx' = idx + 1
    /\ UNCHANGED <<notebook, options, pc, given, scan, twice>>
    /\ UNCHANGED cmd

\* The processed cell is put at the front of the list.
TransformCell_Prepends ==
    /\ Survives
    /\ ~should_note_cell(cell, options.note_tag).given
    /\ heap' = [heap EXCEPT ![ref] = process_cell(cell, options, NoNote)]
    /\ processed_cells' = <<ref>> \o processed_cells
    /\ idx' = idx + 1
    /\ UNCHANGED <<notebook, options, pc, notes_dict, given, scan, twice>>
    /\ UNCHANGED cmd

\* Lines 308-310.
TransformCell ==
    /\ Survives
    /\ ~should_note_cell(cell, options.note_tag).given
    /\ heap' = [heap EXCEPT ![ref] = process_cell(cell, options, NoNote)]
    /\ processed_cells' = Append(processed_cells, ref)
    /\ idx' = idx + 1
    /\ UNCHANGED <<notebook, options, pc, notes_dict, given, scan, twice>>
    /\ UNCHANGED cmd

AfterLoop == pc = "iterate" /\ idx > Len(notebook.cells)

\* The cells are replaced and the document is returned without the marker.
Finalize_NoMarker ==
    /\ AfterLoop
    /\ notebook.has_metadata
    /\ notebook' = [notebook EXCEPT !.cells = processed_cells]
    /\ pc' = "returned"
    /\ UNCHANGED <<heap, options, idx, processed_cells, notes_dict, given, scan, twice>>
    /\ UNCHANGED cmd

\* Lines 312-313 and 317.
Finalize ==
    /\ AfterLoop
    /\ notebook.has_metadata
    /\ notebook' = [notebook EXCEPT !.cells = processed_cells,
                                    !.metadata.exercise_version = TRUE]
    /\ pc' = "returned"
    /\ UNCHANGED <<heap, options, idx, processed_cells, notes_dict, given, scan, twice>>
    /\ UNCHANGED cmd

\* Line 312 assigns the cells, line 313 raises KeyError: the document has no
\* 'metadata'.  Lines 314-315.
FinalizeRaises ==
    /\ AfterLoop
    /\ ~notebook.has_metadata
    /\ notebook' = [notebook EXCEPT !.cells = processed_cells]
    /\ pc' = "ProcessingError"
    /\ UNCHANGED <<heap, options, idx, processed_cells, notes_dict, given, scan, twice>>
    /\ UNCHANGED cmd

Next ==
    \/ Validate
    \/ IterateRaises
    \/ OmitCell
    \/ NoteCell
    \/ TransformCell
    \/ Finalize
    \/ FinalizeRaises

Spec == Init /\ [][Next]_vars

\* ------------------------------------------- documents with note directives

\* The longest cell list of a document of note cells.
MaxNoteCells == 3

Solution == <<"answer", "(", ")">>

\* Cells carrying the note name: as an inline directive with an identifier (with
\* and without a replacement text), without one, in a markdown and a raw cell,
\* and as a structural tag.
NoteCells ==
    { MkCell("code", StrSource(Lines(<<Code(WithValue(nte, <<"a">>)), Body>>)), NoTags, TRUE),
      MkCell("code", StrSource(Lines(<<Code(WithValue(nte, <<"a", " ", "|", " ", "pass">>)),
                                       Solution>>)), TagsOf({clr}), TRUE),
      MkCell("code", StrSource(Lines(<<Code(WithValue(nte, <<"b">>)), Solution>>)), NoTags, FALSE),
      MkCell("code", StrSource(Lines(<<Code(omt), Code(WithValue(nte, <<"a">>)), Body>>)),
             NoTags, TRUE),
      MkCell("code", StrSource(Body), TagsOf({nte}), TRUE),
      MkCell("code", StrSource(Lines(<<Code(nte), Body>>)), NoTags, TRUE),
      MkCell("code", StrSource(Lines(<<Code(WithValue(nte, <<>>)),
                                       Code(WithValue(clr, <<"X">>)), Body>>)), NoTags, TRUE),
      MkCell("markdown", StrSource(Lines(<<Html(WithValue(nte, <<"a">>)), Body>>)), NoTags, TRUE),
      MkCell("raw", StrSource(Lines(<<Code(WithValue(nte, <<"a">>)), Body>>)),
             TagsOf({nte}), TRUE) }

\* The call is given a document of up to MaxNoteCells of these cells.
InitNotes ==
    /\ scan = NoScan
    /\ twice = NoTwice
    /\ NoCommand
    /\ \E has_note_tag \in BOOLEAN, has_metadata \in BOOLEAN, n \in 0..MaxNoteCells :
           \E cells \in [1..n -> NoteCells] :
               InitWith(DocWithCells(n, has_metadata), cells,
                        [clear_tag |-> clr, clear_text |-> clear_text_default,
                         omit_tag |-> omt, has_note_tag |-> has_note_tag,
                         note_tag |-> nte])

SpecNotes == InitNotes /\ [][Next]_vars

\* --------------------------------------- documents with several directives

\* The longest cell list of a document of cells with several directives.
MaxMixedCells == 2

\* Code cells with a note directive and clear (tag, directive, both), code and
\* markdown cells with the clear tag and a clear directive (with a text, without,
\* with an empty one) or the tag alone, cells kept as they are (a list of
\* fragments, another tag), an omitted cell, and raw cells whose content starts
\* with a marker line, with and without the corresponding tag.
MixedCells ==
    { MkCell("code", StrSource(Lines(<<Code(WithValue(nte, <<"a">>)), Body>>)),
             TagsOf({clr}), TRUE),
      MkCell("code", StrSource(Lines(<<Code(WithValue(nte, <<"a">>)),
                                       Code(WithValue(clr, <<"X">>)), Body>>)), NoTags, TRUE),
      MkCell("code", StrSource(Lines(<<Code(WithValue(clr, <<"X">>)),
                                       Code(WithValue(nte, <<"b", " ", "|", " ", "pass">>)),
                                       Solution>>)), TagsOf({clr}), FALSE),
      MkCell("code", StrSource(Lines(<<Code(WithValue(clr, <<"X">>)), Body>>)),
             TagsOf({clr}), TRUE),
      MkCell("code", StrSource(Lines(<<Code(clr), Body>>)), TagsOf({clr}), FALSE),
      MkCell("code", StrSource(Lines(<<Code(clr \o <<":">>), Body>>)), TagsOf({clr}), FALSE),
      MkCell("code", StrSource(Body), TagsOf({clr}), TRUE),
      MkCell("code", List(<<Body \o <<"\n">>, Solution>>), TagsOf({<<"keep">>}), TRUE),
      MkCell("code", StrSource(Lines(<<Code(omt), Code(WithValue(nte, <<"a">>)), Body>>)),
             TagsOf({clr}), TRUE),
      MkCell("markdown", StrSource(Lines(<<Html(WithValue(clr, <<"X">>)), Body>>)),
             TagsOf({clr}), FALSE),
      MkCell("markdown", StrSource(Lines(<<Html(clr), Body>>)), TagsOf({clr}), FALSE),
      MkCell("markdown", StrSource(Body), TagsOf({clr}), FALSE),
      MkCell("markdown", List(<<Body \o <<"\n">>, Solution>>), NoTags, FALSE),
      MkCell("markdown", StrSource(Lines(<<Html(WithValue(nte, <<"a">>)),
                                           Html(WithValue(clr, <<"X">>)), Body>>)),
             NoTags, FALSE),
      MkCell("raw", StrSource(Lines(<<Code(omt), Body>>)), NoTags, FALSE),
      MkCell("raw", StrSource(Lines(<<Code(omt), Body>>)), TagsOf({omt}), FALSE),
      MkCell("raw", StrSource(Lines(<<Code(WithValue(clr, <<"X">>)), Body>>)), NoTags, FALSE),
      MkCell("raw", StrSource(Lines(<<Code(WithValue(clr, <<"X">>)), Body>>)),
             TagsOf({clr}), TRUE),
      MkCell("raw", StrSource(Lines(<<Code(WithValue(nte, <<"a">>)), Body>>)), NoTags, FALSE),
      MkCell("raw", StrSource(Lines(<<Code(WithValue(nte, <<"a">>)), Body>>)),
             TagsOf({nte}), FALSE),
      MkCell("raw", StrSource(Lines(<<Html(omt), Html(clr), Body>>)), NoTags, FALSE),
      MkCell("raw", List(<<Html(WithValue(nte, <<"a">>)) \o <<"\n">>, Body>>),
             AbsentMetadata, FALSE) }

\* The call is given a document, with 'metadata', of up to MaxMixedCells of these
\* cells, and an options object with a note tag.
InitMixed ==
    /\ scan = NoScan
    /\ twice = NoTwice
    /\ NoCommand
    /\ \E clear_text \in {clear_text_default, <<"pass">>}, n \in 0..MaxMixedCells :
           \E cells \in [1..n -> MixedCells] :
               InitWith(DocWithCells(n, TRUE), cells,
                        [clear_tag |-> clr, clear_text |-> clear_text,
                         omit_tag |-> omt, has_note_tag |-> TRUE, note_tag |-> nte])

\* process_notebook on a document it does not fail on.
NextMixed ==
    \/ Validate
    \/ OmitCell
    \/ NoteCell
    \/ TransformCell
    \/ Finalize

SpecMixed == InitMixed /\ [][NextMixed]_vars

\* ---------------------------------------------- the scanner, called alone

\* The longest content, in lines, get_option_value is called on.
MaxScanLines == 2

\* A line: optional indentation, optionally the marker of the cell type, a
\* content, optionally the closing '-->'.
ScanContents ==
    { <<>>,
      <<" ">> \o clr,
      clr \o <<":">>,
      <<" ">> \o WithValue(clr, <<"X">>) \o <<" ">>,
      <<" ">> \o omt,
      <<" ">> \o WithValue(omt, clr),
      <<" ">> \o clr \o <<" ">> \o Body,
      Body }

ScanLineInputs(cell_type) ==
    { lead \o mark \o content \o close :
        lead \in (IF cell_type = "code" THEN {<<>>, <<" ">>} ELSE {<<>>}),
        mark \in {<<>>, start_marker(cell_type)},
        content \in ScanContents,
        close \in (IF cell_type = "code" THEN {<<>>} ELSE {<<>>, <<" ">> \o end_suffix(cell_type)}) }

\* The call's cell is of a type t and has n lines ls as its content.
ScanInput(t, ls) ==
    [cell |-> MkCell(t, StrSource(Lines(ls)), NoTags, FALSE), option |-> clr,
     done |-> FALSE, result |-> NotDeclared]

InitScan ==
    /\ twice = NoTwice
    /\ NoCommand
    /\ \E t \in {"code", "markdown", "raw"}, n \in 1..MaxScanLines :
           \E ls \in [1..n -> ScanLineInputs(t)] : scan = ScanInput(t, ls)
    /\ InitWith(DocWithCells(0, TRUE), <<>>,
                [clear_tag |-> clr, clear_text |-> clear_text_default, omit_tag |-> omt,
                 has_note_tag |-> TRUE, note_tag |-> nte])

\* get_option_value(cell, option)
ScanCell ==
    /\ ~scan.done
    /\ ~get_option_value_raises(scan.cell)
    /\ scan' = [scan EXCEPT !.done = TRUE,
                            !.result = get_option_value(scan.cell, scan.option)]
    /\ UNCHANGED <<notebook, heap, options, pc, idx, processed_cells, notes_dict, given,
                   twice>>
    /\ UNCHANGED cmd

NextScan == ScanCell

SpecScan == InitScan /\ [][NextScan]_vars

\* ------------------------------------------- the transformer, called twice

\* A directive line in the syntax of the cell type.
Directive(cell_type, directive) ==
    IF cell_type = "markdown" THEN Html(directive) ELSE Code(directive)

\* Contents: plain, as a list of fragments, absent; with a clear directive without
\* text, with an empty text, with a text, with the default text as its text, with
\* a text that is a clear directive itself; with a note directive.
TwiceSources(t) ==
    { StrSource(Body),
      List(<<Body \o <<"\n">>, Solution>>),
      AbsentSource,
      StrSource(Lines(<<Directive(t, clr), Body>>)),
      StrSource(Lines(<<Directive(t, WithValue(clr, <<>>)), Body>>)),
      StrSource(Lines(<<Directive(t, WithValue(clr, <<"X">>)), Body>>)),
      StrSource(Lines(<<Directive(t, WithValue(clr, clear_text_default)), Body>>)),
      StrSource(Lines(<<Directive(t, WithValue(clr, Directive(t, WithValue(clr, <<"Y">>)))),
                        Body>>)),
      StrSource(Lines(<<Directive(t, WithValue(nte, <<"a">>)), Body>>)) }

TwiceCells ==
    { MkCell(t, source, metadata, executed) :
        t \in {"code", "markdown", "raw"},
        source \in UNION {TwiceSources(u) : u \in {"code", "markdown"}},
        metadata \in {NoTags, TagsOf({clr}), AbsentMetadata},
        executed \in BOOLEAN }

\* The default text, another text, a text that is a clear directive.
TwiceOptions ==
    [clear_tag : {clr},
     clear_text : {clear_text_default, <<"pass">>, Code(WithValue(clr, <<"Z">>))},
     omit_tag : {omt}, has_note_tag : {TRUE}, note_tag : {nte}]

\* note_info: None, an identifier, an identifier and a replacement.
TwiceNoteInfos == {NoNote, NoteInfo(<<"a">>, FALSE, <<>>), NoteInfo(<<"a">>, TRUE, <<"pass">>)}

InitTwice ==
    /\ scan = NoScan
    /\ NoCommand
    /\ InitWith(DocWithCells(0, TRUE), <<>>,
                [clear_tag |-> clr, clear_text |-> clear_text_default, omit_tag |-> omt,
                 has_note_tag |-> TRUE, note_tag |-> nte])
    /\ \E c \in TwiceCells, opts \in TwiceOptions, info \in TwiceNoteInfos :
           twice = [calls |-> 0, cell |-> c, options |-> opts, note_info |-> info,
                    once |-> c, again |-> c]

\* process_cell(cell, options, note_info)
CallOnce ==
    /\ twice.calls = 0
    /\ ~process_cell_raises(twice.cell, twice.note_info)
    /\ twice' = [twice EXCEPT
                    !.calls = 1,
                    !.once = process_cell(twice.cell, twice.options, twice.note_info),
                    !.again = process_cell(twice.cell, twice.options, twice.note_info)]
    /\ UNCHANGED <<notebook, heap, options, pc, idx, processed_cells, notes_dict, given,
                   scan>>
    /\ UNCHANGED cmd

\* process_cell on the cell the first call returned; once keeps what it was.
CallAgain ==
    /\ twice.calls = 1
    /\ ~process_cell_raises(twice.once, twice.note_info)
    /\ twice' = [twice EXCEPT
                    !.calls = 2,
                    !.again = process_cell(twice.once, twice.options, twice.note_info)]
    /\ UNCHANGED <<notebook, heap, options, pc, idx, processed_cells, notes_dict, given,
                   scan>>
    /\ UNCHANGED cmd

NextTwice == CallOnce \/ CallAgain

SpecTwice == InitTwice /\ [][NextTwice]_vars

\* --------------------------------------------------------- the configuration

\* A str | None of Python, a key of a TOML table that may be missing.
None == [given |-> FALSE, value |-> <<>>]

Some(value) == [given |-> TRUE, value |-> value]

\* data.get(key, default)
Get(optional, default) == IF optional.given THEN optional.value ELSE default

\* x or y: x unless it is None or empty.
Or(optional, other) ==
    IF optional.given /\ optional.value # <<>> THEN optional.value ELSE other

\* ScrubbingOptions.from_dict (config.py:65-72).  The dataclass has no note_tag.
ScrubbingOptions_from_dict(data) ==
    [clear_tag |-> Get(data.clear_tag, clear_tag_default),
     clear_text |-> Get(data.clear_text, clear_text_default),
     omit_tag |-> Get(data.omit_tag, omit_tag_default),
     has_note_tag |-> FALSE, note_tag |-> <<>>]

\* A table without a key of its own ('note-tag' is a key a table can have).
NoOverrides == [clear_tag |-> None, clear_text |-> None, omit_tag |-> None,
                note_tag |-> None]

\* FileEntry.from_dict raises ScrubberError (config.py:87-90).
FileEntry_from_dict_raises(data) == ~data.input.given \/ ~data.output.given

FileEntry_from_dict_error(data) ==
    IF ~data.input.given THEN "File entry missing required field: input"
    ELSE "File entry missing required field: output"

\* FileEntry.from_dict (config.py:92-98)
FileEntry_from_dict(data) ==
    [input |-> data.input.value, output |-> data.output.value,
     clear_tag |-> data.clear_tag, clear_text |-> data.clear_text,
     omit_tag |-> data.omit_tag]

\* An override is used whenever the entry has the key, also when it is empty.
get_options_KeepsEmpty(entry, global_options) ==
    [clear_tag |-> Get(entry.clear_tag, global_options.clear_tag),
     clear_text |-> Get(entry.clear_text, global_options.clear_text),
     omit_tag |-> Get(entry.omit_tag, global_options.omit_tag),
     has_note_tag |-> FALSE, note_tag |-> <<>>]

\* FileEntry.get_options (config.py:101-107): a ScrubbingOptions without note_tag.
get_options(entry, global_options) ==
    [clear_tag |-> Or(entry.clear_tag, global_options.clear_tag),
     clear_text |-> Or(entry.clear_text, global_options.clear_text),
     omit_tag |-> Or(entry.omit_tag, global_options.omit_tag),
     has_note_tag |-> FALSE, note_tag |-> <<>>]

\* Only the file list is checked; an entry is looked at when its turn comes.
ProjectConfig_from_dict_raises_ListOnly(data) == data.files = <<>>

\* ProjectConfig.from_dict raises ScrubberError (config.py:124-128): no entry, or
\* an entry, at any position, that FileEntry.from_dict rejects.
ProjectConfig_from_dict_raises(data) ==
    \/ data.files = <<>>
    \/ \E k \in 1..Len(data.files) : FileEntry_from_dict_raises(data.files[k])

ProjectConfig_from_dict_error(data) ==
    IF data.files = <<>> THEN "Config file must contain at least one file entry"
    ELSE FileEntry_from_dict_error(
             data.files[CHOOSE k \in 1..Len(data.files) :
                            /\ FileEntry_from_dict_raises(data.files[k])
                            /\ \A j \in 1..(k - 1) : ~FileEntry_from_dict_raises(data.files[j])])

\* ProjectConfig.from_dict (config.py:117-130); data.get('options', {}).
ProjectConfig_from_dict(data) ==
    [loaded |-> TRUE,
     global_options |->
         ScrubbingOptions_from_dict(IF data.has_options THEN data.options ELSE NoOverrides),
     files |-> [k \in 1..Len(data.files) |-> FileEntry_from_dict(data.files[k])]]

\* ProjectConfig.discover / from_file raise ScrubberError before from_dict
\* (config.py:147-165, 187-191).  file.name = "None": find_config_file found none.
from_file_raises(file) ==
    \/ file.name = "None"
    \/ ~file.exists
    \/ ~file.toml_ok
    \/ file.name = "pyproject.toml" /\ ~file.has_section

from_file_error(file) ==
    IF file.name = "None" THEN "No config file found"
    ELSE IF ~file.exists THEN "Config file not found"
    ELSE IF ~file.toml_ok THEN "Invalid TOML in config file"
    ELSE "pyproject.toml does not contain [tool.ipynb-scrubber] section"

\* ------------------------------------------------------------ the file system

\* No file at the path.
Missing == [exists |-> FALSE, json_ok |-> FALSE,
            notebook |-> DocWithCells(0, TRUE), heap |-> <<>>]

\* A file that is no JSON.
InvalidJson == [Missing EXCEPT !.exists = TRUE]

\* A file holding a document (json.load gives nb with the cell objects cells).
JsonFile(nb, cells) == [exists |-> TRUE, json_ok |-> TRUE, notebook |-> nb, heap |-> cells]

\* json.dump(processed_notebook, f): the document with the cells it refers to.
Dumped(nb, h) ==
    JsonFile([nb EXCEPT !.cells = [k \in 1..Len(nb.cells) |-> k]],
             [k \in 1..Len(nb.cells) |-> h[nb.cells[k]]])

FileAt(path) == IF path \in DOMAIN files THEN files[path] ELSE Missing

\* No call of process_notebook yet.
IdleDocument ==
    /\ notebook = DocWithCells(0, TRUE)
    /\ heap = <<>>
    /\ options = ScrubbingOptions_from_dict(NoOverrides)
    /\ pc = "idle"
    /\ idx = 1
    /\ processed_cells = <<>>
    /\ notes_dict = <<>>
    /\ given = [notebook |-> DocWithCells(0, TRUE), heap |-> <<>>]

\* process_notebook(notebook, options) is called on the document of a file.
CallProcessNotebook(file, opts) ==
    /\ notebook' = file.notebook
    /\ heap' = file.heap
    /\ options' = opts
    /\ pc' = "validate"
    /\ idx' = 1
    /\ processed_cells' = <<>>
    /\ notes_dict' = <<>>
    /\ given' = [notebook |-> file.notebook, heap |-> file.heap]

\* ------------------------------------------------------------- scrub-project

\* The longest file list of a configuration.
MaxEntries == 2

InputPaths == {"a.ipynb", "b.ipynb"}

OutputPaths == {"out/a.ipynb", "out/b.ipynb"}

\* A [[files]] table without the key 'input' or 'output'.
NoPath == [given |-> FALSE, value |-> "None"]

\* The [[files]] tables of a configuration: with and without overrides (an empty
\* one too), without 'input', without 'output', with the key 'notes-file'.
EntryData ==
    { [input |-> Some("a.ipynb"), output |-> Some("out/a.ipynb"),
       clear_tag |-> None, clear_text |-> None, omit_tag |-> None, notes_file |-> NoPath],
      [input |-> Some("b.ipynb"), output |-> Some("out/b.ipynb"),
       clear_tag |-> Some(<<>>), clear_text |-> Some(<<"pass">>), omit_tag |-> None,
       notes_file |-> NoPath],
      [input |-> Some("b.ipynb"), output |-> Some("out/a.ipynb"),
       clear_tag |-> Some(<<"my-clear">>), clear_text |-> Some(<<>>),
       omit_tag |-> Some(<<"skip">>), notes_file |-> NoPath],
      [input |-> NoPath, output |-> Some("out/b.ipynb"),
       clear_tag |-> None, clear_text |-> None, omit_tag |-> None, notes_file |-> NoPath],
      [input |-> Some("a.ipynb"), output |-> NoPath,
       clear_tag |-> None, clear_text |-> Some(<<"pass">>), omit_tag |-> None,
       notes_file |-> NoPath],
      [input |-> Some("a.ipynb"), output |-> Some("out/a.ipynb"),
       clear_tag |-> None, clear_text |-> None, omit_tag |-> None,
       notes_file |-> Some("notes/a.md")] }

\* The [options] table: missing, or with some of its keys.
OptionsData ==
    { [has_options |-> FALSE, options |-> NoOverrides],
      [has_options |-> TRUE,
       options |-> [clear_tag |-> None, clear_text |-> Some(<<"#", " ", "your", " ", "code">>),
                    omit_tag |-> Some(<<"skip">>), note_tag |-> None]],
      [has_options |-> TRUE,
       options |-> [clear_tag |-> None, clear_text |-> None, omit_tag |-> None,
                    note_tag |-> Some(<<"solution-note">>)]] }

\* How the config file is located (args.config_file, or discovery) and what is
\* wrong with it, if anything.  find_config_file returns a pyproject.toml only if
\* it parses and has the section.
ConfigFileKinds ==
    { [explicit |-> TRUE, name |-> ".ipynb-scrubber.toml", exists |-> TRUE,
       toml_ok |-> TRUE, has_section |-> FALSE],
      [explicit |-> FALSE, name |-> "pyproject.toml", exists |-> TRUE,
       toml_ok |-> TRUE, has_section |-> TRUE],
      [explicit |-> FALSE, name |-> "None", exists |-> FALSE,
       toml_ok |-> FALSE, has_section |-> FALSE],
      [explicit |-> TRUE, name |-> ".ipynb-scrubber.toml", exists |-> FALSE,
       toml_ok |-> FALSE, has_section |-> FALSE],
      [explicit |-> FALSE, name |-> ".ipynb-scrubber.toml", exists |-> TRUE,
       toml_ok |-> FALSE, has_section |-> FALSE],
      [explicit |-> TRUE, name |-> "pyproject.toml", exists |-> TRUE,
       toml_ok |-> TRUE, has_section |-> FALSE] }

\* The documents of the input files.
DocEmpty == JsonFile(DocWithCells(0, TRUE), <<>>)

DocOmitted ==
    JsonFile(DocWithCells(2, TRUE),
             <<MkCell("code", StrSource(Body), TagsOf({omt}), TRUE),
               MkCell("markdown", StrSource(Lines(<<Html(omt), Body>>)), NoTags, FALSE)>>)

DocNoted ==
    JsonFile(DocWithCells(2, TRUE),
             <<MkCell("code", StrSource(Body), TagsOf({omt}), TRUE),
               MkCell("code", StrSource(Lines(<<Code(WithValue(nte, <<"a">>)), Body>>)),
                      NoTags, TRUE)>>)

\* A note directive under another name than the default one.
DocCustomNoted ==
    JsonFile(DocWithCells(1, TRUE),
             <<MkCell("code", StrSource(Lines(<<Code(WithValue(<<"solution-note">>, <<"a">>)),
                                                Body>>)), NoTags, FALSE)>>)

DocNoCells == JsonFile([DocWithCells(0, TRUE) EXCEPT !.has_cells = FALSE], <<>>)

DocNoMetadata == JsonFile(DocWithCells(0, FALSE), <<>>)

InputFiles ==
    [p \in InputPaths |->
        IF p = "a.ipynb"
        THEN {Missing, InvalidJson, DocEmpty, DocOmitted, DocNoted, DocCustomNoted}
        ELSE {DocEmpty, DocOmitted, DocNoCells, DocNoMetadata}]

\* scrub-project is run with a config file of one of the kinds, holding up to
\* MaxEntries [[files]] tables; the input files hold what they hold; no output
\* file exists.
InitProject ==
    /\ scan = NoScan
    /\ twice = NoTwice
    /\ IdleDocument
    /\ \E kind \in ConfigFileKinds, o \in OptionsData, n \in 0..MaxEntries :
           \E es \in [1..n -> EntryData] :
               /\ config_file = [explicit |-> kind.explicit, name |-> kind.name,
                                 exists |-> kind.exists, toml_ok |-> kind.toml_ok,
                                 has_section |-> kind.has_section,
                                 data |-> [has_options |-> o.has_options,
                                           options |-> o.options, files |-> es]]
               /\ args = [command |-> "scrub-project",
                          config_file |-> IF kind.explicit THEN kind.name ELSE "None"]
    /\ \E a \in InputFiles["a.ipynb"], b \in InputFiles["b.ipynb"] :
           files = [p \in InputPaths \cup OutputPaths |->
                       IF p = "a.ipynb" THEN a ELSE IF p = "b.ipynb" THEN b ELSE Missing]
    /\ config = [loaded |-> FALSE]
    /\ file_entry = 0
    /\ io = <<>>
    /\ stderr = <<>>
    /\ status = "running"
    /\ step = "load"

document == <<notebook, heap, options, pc, idx, processed_cells, notes_dict, given>>

\* printe(...)
Printed(kind, text) == Append(stderr, [kind |-> kind, text |-> text])

\* Lines 217-220 raise ScrubberError; lines 276-278.
LoadConfigFails ==
    /\ step = "load"
    /\ from_file_raises(config_file) \/ ProjectConfig_from_dict_raises(config_file.data)
    /\ stderr' = Printed("Error",
                         IF from_file_raises(config_file) THEN from_file_error(config_file)
                         ELSE ProjectConfig_from_dict_error(config_file.data))
    /\ status' = "1"
    /\ step' = "exit"
    /\ UNCHANGED <<args, config_file, config, file_entry, files, io>>
    /\ UNCHANGED <<document, scan, twice>>

\* Lines 217-220.
LoadConfig ==
    /\ step = "load"
    /\ ~from_file_raises(config_file)
    /\ ~ProjectConfig_from_dict_raises(config_file.data)
    /\ config' = ProjectConfig_from_dict(config_file.data)
    /\ file_entry' = 1
    /\ step' = "entry"
    /\ UNCHANGED <<args, config_file, files, io, stderr, status>>
    /\ UNCHANGED <<document, scan, twice>>

AtEntry == step = "entry" /\ file_entry <= Len(config.files)

entry == config.files[file_entry]

\* Lines 226-240 raise ScrubberError: no input file, or no JSON in it.  Lines
\* 267-269.
ReadEntryFails ==
    /\ AtEntry
    /\ ~FileAt(entry.input).exists \/ ~FileAt(entry.input).json_ok
    /\ options' = get_options(entry, config.global_options)
    /\ io' = IF FileAt(entry.input).exists
             THEN Append(io, [op |-> "read", path |-> entry.input, entry |-> file_entry])
             ELSE io
    /\ stderr' = Printed("Error processing", IF FileAt(entry.input).exists THEN "Invalid JSON"
                              ELSE "Input file not found")
    /\ status' = "1"
    /\ step' = "exit"
    /\ UNCHANGED <<args, config_file, config, file_entry, files>>
    /\ UNCHANGED <<notebook, heap, pc, idx, processed_cells, notes_dict, given, scan, twice>>

\* Lines 226-243: the document is loaded and process_notebook is called.
ReadEntry ==
    /\ AtEntry
    /\ FileAt(entry.input).exists
    /\ FileAt(entry.input).json_ok
    /\ CallProcessNotebook(FileAt(entry.input), get_options(entry, config.global_options))
    /\ io' = Append(io, [op |-> "read", path |-> entry.input, entry |-> file_entry])
    /\ step' = "process"
    /\ UNCHANGED <<args, config_file, config, file_entry, files, stderr, status>>
    /\ UNCHANGED <<scan, twice>>

\* The message of the exception process_notebook raised.
ErrorText ==
    IF pc = "InvalidNotebookError" THEN "Invalid notebook"
    ELSE IF idx > Len(notebook.cells) THEN "Error processing notebook: 'metadata'"
    ELSE IF should_omit_cell_raises(cell) THEN "Error processing notebook: (the cell)"
    ELSE "Error processing notebook: 'ScrubbingOptions' object has no attribute 'note_tag'"

\* The failure is reported and the loop goes on with the next entry.
EntryFails_Continues ==
    /\ step = "process"
    /\ pc \in {"InvalidNotebookError", "ProcessingError"}
    /\ stderr' = Printed("Error processing", ErrorText)
    /\ file_entry' = file_entry + 1
    /\ step' = "entry"
    /\ UNCHANGED <<args, config_file, config, files, io, status>>
    /\ UNCHANGED <<document, scan, twice>>

\* process_notebook raised InvalidNotebookError or ProcessingError; lines 267-269.
EntryFails ==
    /\ step = "process"
    /\ pc \in {"InvalidNotebookError", "ProcessingError"}
    /\ stderr' = Printed("Error processing", ErrorText)
    /\ status' = "1"
    /\ step' = "exit"
    /\ UNCHANGED <<args, config_file, config, file_entry, files, io>>
    /\ UNCHANGED <<document, scan, twice>>

\* process_notebook returned; lines 245-265.  notes_dict is empty: options has no
\* note_tag, so the call fails at line 293 for a document with a cell that is not
\* omitted, and lines 246-256 are not reached.
WriteEntry ==
    /\ step = "process"
    /\ pc = "returned"
    /\ notes_dict = <<>>
    /\ files' = [files EXCEPT ![entry.output] = Dumped(notebook, heap)]
    /\ io' = Append(io, [op |-> "write", path |-> entry.output, entry |-> file_entry])
    /\ stderr' = Printed("Processed", "")
    /\ file_entry' = file_entry + 1
    /\ step' = "entry"
    /\ UNCHANGED <<args, config_file, config, status>>
    /\ UNCHANGED <<document, scan, twice>>

\* Line 274: the loop is over.
ReturnZero ==
    /\ step = "entry"
    /\ file_entry > Len(config.files)
    /\ status' = "0"
    /\ step' = "exit"
    /\ UNCHANGED <<args, config_file, config, file_entry, files, io, stderr>>
    /\ UNCHANGED <<document, scan, twice>>

\* ScrubProject.__call__.  NoteCell and TransformCell need options.note_tag, which
\* the options of get_options do not have.
NextProject ==
    \/ LoadConfigFails
    \/ LoadConfig
    \/ ReadEntryFails
    \/ ReadEntry
    \/ Validate
    \/ IterateRaises
    \/ OmitCell
    \/ Finalize
    \/ FinalizeRaises
    \/ EntryFails
    \/ WriteEntry
    \/ ReturnZero

SpecProject == InitProject /\ [][NextProject]_vars

\* ------------------------------------------------------------ scrub-notebook

\* scrub-notebook is run with or without --notes-file; stdin holds no JSON, or a
\* document of up to MaxCells cells with note directives.
InitNotebook ==
    /\ scan = NoScan
    /\ twice = NoTwice
    /\ IdleDocument
    /\ \E notes_file \in {"None", "notes.md"} :
           args = [command |-> "scrub-notebook", clear_tag |-> clr,
                   clear_text |-> clear_text_default, omit_tag |-> omt,
                   note_tag |-> nte, notes_file |-> notes_file]
    /\ \E input \in {"no JSON", "JSON"}, has_metadata \in BOOLEAN, n \in 0..MaxCells :
           \E cells \in [1..n -> NoteCells] :
               files = [p \in {"stdin", "stdout", "notes.md"} |->
                           IF p # "stdin" THEN Missing
                           ELSE IF input = "no JSON" THEN InvalidJson
                           ELSE JsonFile(DocWithCells(n, has_metadata), cells)]
    /\ config_file = [explicit |-> FALSE, name |-> "None"]
    /\ config = [loaded |-> FALSE]
    /\ file_entry = 0
    /\ io = <<>>
    /\ stderr = <<>>
    /\ status = "running"
    /\ step = "read"

\* Lines 142-147 raise ScrubberError; lines 178-180: sys.exit(1).
ReadStdinFails ==
    /\ step = "read"
    /\ ~files["stdin"].json_ok
    /\ io' = Append(io, [op |-> "read", path |-> "stdin", entry |-> 0])
    /\ stderr' = Printed("Error", "Invalid JSON input")
    /\ status' = "1"
    /\ step' = "exit"
    /\ UNCHANGED <<args, config_file, config, file_entry, files>>
    /\ UNCHANGED <<document, scan, twice>>

\* Lines 142-143: notebook = json.load(sys.stdin).
ReadStdin ==
    /\ step = "read"
    /\ files["stdin"].json_ok
    /\ notebook' = files["stdin"].notebook
    /\ heap' = files["stdin"].heap
    /\ given' = [notebook |-> files["stdin"].notebook, heap |-> files["stdin"].heap]
    /\ io' = Append(io, [op |-> "read", path |-> "stdin", entry |-> 0])
    /\ step' = "options"
    /\ UNCHANGED <<args, config_file, config, file_entry, files, stderr, status>>
    /\ UNCHANGED <<options, pc, idx, processed_cells, notes_dict, scan, twice>>

\* Lines 149-154: ScrubbingOptions(..., note_tag=args.note_tag) raises TypeError,
\* the dataclass has no field note_tag.  Lines 181-184 print and re-raise: the
\* interpreter exits with status 1.  Lines 156-176 are not reached.
ScrubbingOptionsRaises ==
    /\ step = "options"
    /\ stderr' = Printed("Unexpected error",
                         "ScrubbingOptions.__init__() got an unexpected keyword argument 'note_tag'")
    /\ status' = "1"
    /\ step' = "exit"
    /\ UNCHANGED <<args, config_file, config, file_entry, files, io>>
    /\ UNCHANGED <<document, scan, twice>>

\* ScrubNotebook.__call__
NextNotebook ==
    \/ ReadStdinFails
    \/ ReadStdin
    \/ ScrubbingOptionsRaises

SpecNotebook == InitNotebook /\ [][NextNotebook]_vars

\* ------------------------------------------------------ the notes renderer

\* The longest cell list of a document whose notes are rendered.
MaxRenderCells == 3

\* Cells noted under 'a' (one with a replacement text and a content that ends
\* with a newline) and under 'b', an omitted cell declaring 'c', a markdown cell.
RenderCells ==
    { MkCell("code", StrSource(Lines(<<Code(WithValue(nte, <<"a">>)), Body>>)), NoTags, TRUE),
      MkCell("code", List(<<Code(WithValue(nte, <<"a", " ", "|", " ", "pass">>)) \o <<"\n">>,
                            Solution \o <<"\n">>>>), NoTags, TRUE),
      MkCell("code", StrSource(Lines(<<Code(WithValue(nte, <<"b">>)), Solution>>)),
             TagsOf({clr}), FALSE),
      MkCell("code", StrSource(Lines(<<Code(omt), Code(WithValue(nte, <<"c">>)), Body>>)),
             NoTags, FALSE),
      MkCell("markdown", StrSource(Body), NoTags, FALSE) }

\* f.write('# Notebook Notes\n\n') and the sentence after it (lines 339-343).
NotesHeader ==
    <<"#", " ", "Notebook Notes", "\n", "\n",
      "This file contains the original content of cells marked for note-taking.",
      "\n", "\n">>

\* Lines 369-370.
NotesFooter == <<"---", "\n", "*Generated by ipynb-scrubber*", "\n">>

\* The three backquotes of a code fence, as one token.
Backquotes == "(3 backquotes)"

\* Lines 351-358.
Fence(cell_type) ==
    IF cell_type = "code" THEN <<Backquotes, "python", "\n">>
    ELSE IF cell_type = "markdown" THEN <<Backquotes, "markdown", "\n">>
    ELSE <<Backquotes, "\n">>

\* f.write(f'## {note_id}\n\n')
NoteHeading(note_id) == <<"##", " ">> \o note_id \o <<"\n", "\n">>

\* Lines 348-366: the heading, the fence, the content, a newline if the content
\* does not end with one, the closing fence.
RenderNote(note) ==
    NoteHeading(note.key) \o Fence(note.cell_type) \o note.source
        \o (IF EndsWith(note.source, <<"\n">>) THEN <<>> ELSE <<"\n">>)
        \o <<Backquotes, "\n", "\n">>

\* for note_id, (cell_type, content) in notes_dict.items()
RECURSIVE RenderNotes(_)
RenderNotes(notes) ==
    IF notes = <<>> THEN <<>> ELSE RenderNote(Head(notes)) \o RenderNotes(Tail(notes))

\* The text write_notes_file writes.
NotesText(notes) == NotesHeader \o RenderNotes(notes) \o NotesFooter

\* process_notebook is called on a document of up to MaxRenderCells of these
\* cells, and write_notes_file on the notes collection it returns; the directory
\* of the notes file can be created and the file opened, or not.
InitRender ==
    /\ scan = NoScan
    /\ twice = NoTwice
    /\ \E n \in 0..MaxRenderCells :
           \E cells \in [1..n -> RenderCells] :
               InitWith(DocWithCells(n, TRUE), cells,
                        [clear_tag |-> clr, clear_text |-> clear_text_default,
                         omit_tag |-> omt, has_note_tag |-> TRUE, note_tag |-> nte])
    /\ args = [command |-> "write_notes_file", output_path |-> "notes.md"]
    /\ \E writable \in BOOLEAN :
           files = [p \in {"notes.md"} |->
                       [exists |-> FALSE, writable |-> writable, text |-> <<>>]]
    /\ config_file = [explicit |-> FALSE, name |-> "None"]
    /\ config = [loaded |-> FALSE]
    /\ file_entry = 0
    /\ io = <<>>
    /\ stderr = <<>>
    /\ status = "running"
    /\ step = "process"

\* Lines 333-370.
WriteNotesFile ==
    /\ step = "process"
    /\ pc = "returned"
    /\ files[args.output_path].writable
    /\ files' = [files EXCEPT ![args.output_path].exists = TRUE,
                              ![args.output_path].text = NotesText(notes_dict)]
    /\ io' = Append(io, [op |-> "write", path |-> args.output_path, entry |-> 0])
    /\ step' = "written"
    /\ UNCHANGED <<args, config_file, config, file_entry, stderr, status>>
    /\ UNCHANGED <<document, scan, twice>>

\* mkdir or open raises; lines 372-373: ProcessingError.
WriteNotesFileRaises ==
    /\ step = "process"
    /\ pc = "returned"
    /\ ~files[args.output_path].writable
    /\ step' = "ProcessingError"
    /\ UNCHANGED <<args, config_file, config, file_entry, files, io, stderr, status>>
    /\ UNCHANGED <<document, scan, twice>>

NextRender ==
    \/ Validate
    \/ OmitCell
    \/ NoteCell
    \/ TransformCell
    \/ Finalize
    \/ WriteNotesFile
    \/ WriteNotesFileRaises

SpecRender == InitRender /\ [][NextRender]_vars

\* ---------------------------------------------------------- config discovery

\* The longest chain of directories from the start directory up to the root.
MaxDepth == 3

\* The value at the top-level key 'tool' of a parsed pyproject.toml: a table (its
\* keys), a string (its text), or a value of another type.
ToolTable(keys) == [type |-> "table", keys |-> keys, text |-> <<>>]

ToolStr(text) == [type |-> "str", keys |-> {}, text |-> text]

ToolInt == [type |-> "int", keys |-> {}, text |-> <<>>]

\* 'ipynb-scrubber' in data['tool'] raises TypeError on a value that is no
\* container.
InTool_raises(tool) == tool.type \notin {"table", "str"}

\* 'ipynb-scrubber' in data['tool']: a key of a table, a substring of a string.
InTool(tool) ==
    IF tool.type = "table" THEN "ipynb-scrubber" \in tool.keys
    ELSE Contains(tool.text, <<"ipynb-scrubber">>)

NoPyproject == [exists |-> FALSE, toml_ok |-> FALSE, has_tool |-> FALSE, tool |-> ToolInt]

\* pyproject.toml in a directory: none, one that cannot be read or parsed, one
\* without 'tool', one whose 'tool' is a table without or with the section, a
\* string naming the tool, or a number.
PyprojectFiles ==
    { NoPyproject,
      [NoPyproject EXCEPT !.exists = TRUE],
      [exists |-> TRUE, toml_ok |-> TRUE, has_tool |-> FALSE, tool |-> ToolInt],
      [exists |-> TRUE, toml_ok |-> TRUE, has_tool |-> TRUE, tool |-> ToolTable({"ruff"})],
      [exists |-> TRUE, toml_ok |-> TRUE, has_tool |-> TRUE,
       tool |-> ToolTable({"ruff", "ipynb-scrubber"})],
      [exists |-> TRUE, toml_ok |-> TRUE, has_tool |-> TRUE,
       tool |-> ToolStr(<<"ipynb-scrubber">>)],
      [exists |-> TRUE, toml_ok |-> TRUE, has_tool |-> TRUE, tool |-> ToolInt] }

\* A directory: whether it has .ipynb-scrubber.toml, and its pyproject.toml.
Directories == [standalone : BOOLEAN, pyproject : PyprojectFiles]

\* find_config_file(start_dir) is called; dirs[1] is the resolved start directory,
\* dirs[k + 1] the parent of dirs[k], the last one the filesystem root.
InitDiscover ==
    /\ scan = NoScan
    /\ twice = NoTwice
    /\ IdleDocument
    /\ args = [command |-> "find_config_file"]
    /\ \E n \in 1..MaxDepth :
           \E dirs \in [1..n -> Directories] :
               config_file = [explicit |-> FALSE, name |-> "None", dirs |-> dirs,
                              current |-> 1, found |-> 0]
    /\ config = [loaded |-> FALSE]
    /\ file_entry = 0
    /\ files = <<>>
    /\ io = <<>>
    /\ stderr = <<>>
    /\ status = "running"
    /\ step = "walk"

current == config_file.dirs[config_file.current]

\* Lines 38-47: pyproject.toml exists, is read and parsed without an exception,
\* and the test of line 43 is true.
PyprojectReturned(dir) ==
    /\ dir.pyproject.exists
    /\ dir.pyproject.toml_ok
    /\ dir.pyproject.has_tool
    /\ ~InTool_raises(dir.pyproject.tool)
    /\ InTool(dir.pyproject.tool)

\* Lines 32-34: return standalone_config.
ReturnStandalone ==
    /\ step = "walk"
    /\ current.standalone
    /\ config_file' = [config_file EXCEPT !.name = ".ipynb-scrubber.toml",
                                          !.found = config_file.current]
    /\ step' = "returned"
    /\ UNCHANGED <<args, config, file_entry, files, io, stderr, status>>
    /\ UNCHANGED <<document, scan, twice>>

\* Lines 37-44: return pyproject.
ReturnPyproject ==
    /\ step = "walk"
    /\ ~current.standalone
    /\ PyprojectReturned(current)
    /\ config_file' = [config_file EXCEPT !.name = "pyproject.toml",
                                          !.found = config_file.current]
    /\ step' = "returned"
    /\ UNCHANGED <<args, config, file_entry, files, io, stderr, status>>
    /\ UNCHANGED <<document, scan, twice>>

\* Lines 49-54: the directory has a parent, which becomes the current one.
MoveUp ==
    /\ step = "walk"
    /\ ~current.standalone
    /\ ~PyprojectReturned(current)
    /\ config_file.current < Len(config_file.dirs)
    /\ config_file' = [config_file EXCEPT !.current = config_file.current + 1]
    /\ UNCHANGED <<args, config, file_entry, files, io, stderr, status, step>>
    /\ UNCHANGED <<document, scan, twice>>

\* Lines 50-53: the parent of the root is the root; return None.
ReturnNone ==
    /\ step = "walk"
    /\ ~current.standalone
    /\ ~PyprojectReturned(current)
    /\ config_file.current = Len(config_file.dirs)
    /\ step' = "returned"
    /\ UNCHANGED <<args, config_file, config, file_entry, files, io, stderr, status>>
    /\ UNCHANGED <<document, scan, twice>>

NextDiscover ==
    \/ ReturnStandalone
    \/ ReturnPyproject
    \/ MoveUp
    \/ ReturnNone

\* The loop has no suspension point: an iteration that can run does run.
SpecDiscover == InitDiscover /\ [][NextDiscover]_vars /\ WF_vars(NextDiscover)

\* ----------------------------------------------------------------- claims

\* What the claims call a cell's classification, stated on the input cell.
TextLines(c) == SplitLines(SourceText(c))

LineIsBlank(line) == \A k \in 1..Len(line) : IsSpace(line[k])

LineIsMarker(line, cell_type) == StartsWith(Strip(line), start_marker(cell_type))

\* The marker line names the option: 'option' alone, or 'option: value'.
LineNames(line, cell_type, option) ==
    /\ LineIsMarker(line, cell_type)
    /\ LET part == OptionPart(Strip(line), start_marker(cell_type), end_suffix(cell_type))
       IN  IF Contains(part, <<":">>)
           THEN Strip(SubSeq(part, 1, IndexOf(part, <<":">>) - 1)) = option
           ELSE part = option

\* A line naming the option stands in the leading block: only blank lines and
\* marker lines come before it.
DeclaredInLeadingBlock(c, option) ==
    \E k \in 1..Len(TextLines(c)) :
        /\ LineNames(TextLines(c)[k], c.cell_type, option)
        /\ \A j \in 1..(k - 1) :
               \/ LineIsBlank(TextLines(c)[j])
               \/ LineIsMarker(TextLines(c)[j], c.cell_type)

DeclaredInline(c, option) ==
    /\ c.cell_type \in {"code", "markdown"}
    /\ DeclaredInLeadingBlock(c, option)

HasTag(c, tag) == c.metadata.form = "dict" /\ c.metadata.has_tags /\ tag \in c.metadata.tags

ClassifiedOmit(c) == HasTag(c, omt) \/ DeclaredInline(c, omt)

CarriesClear(c) == HasTag(c, clr) \/ DeclaredInline(c, clr)

Returned == pc = "returned"

InputCount == Len(given.heap)

\* The references to cell objects in a list of them.
Refs(list) == {list[k] : k \in 1..Len(list)}

\* The cells of the document, as objects.
CellsOf(nb) == [k \in 1..Len(nb.cells) |-> heap[nb.cells[k]]]

\* C1: a cell classified omit (omit tag, or inline omit directive in a code or
\* markdown cell) is never put in the output list, and so is absent from the
\* returned document, also when it carries the clear tag or a clear directive.
C1_OmittedCellAbsent ==
    /\ \A r \in Refs(processed_cells) : ~ClassifiedOmit(given.heap[r])
    /\ Returned => \A r \in Refs(notebook.cells) : ~ClassifiedOmit(given.heap[r])

C1_Witness ==
    /\ Returned
    /\ \E r \in 1..InputCount :
           /\ HasTag(given.heap[r], omt) /\ HasTag(given.heap[r], clr)
           /\ r \notin Refs(notebook.cells)
    /\ \E r \in 1..InputCount :
           /\ DeclaredInline(given.heap[r], omt) /\ DeclaredInline(given.heap[r], clr)
           /\ r \notin Refs(notebook.cells)

\* C2: a returned document has at most as many cells as the input, and as many
\* if and only if no input cell is classified omit.
C2_CellCount ==
    Returned =>
        /\ Len(notebook.cells) <= InputCount
        /\ Len(notebook.cells) = InputCount
               <=> \A r \in 1..InputCount : ~ClassifiedOmit(given.heap[r])

C2_Witness ==
    /\ Returned
    /\ InputCount = 2
    /\ Len(notebook.cells) = 1

\* C3: the output list is a subsequence of the input list: its references to
\* input cells are strictly increasing, so order is kept and no cell is repeated.
StrictlyIncreasing(list) ==
    \A j, k \in 1..Len(list) : j < k => list[j] < list[k]

C3_OrderPreserved ==
    /\ StrictlyIncreasing(processed_cells)
    /\ Refs(processed_cells) \subseteq 1..InputCount
    /\ Returned => notebook.cells = processed_cells

C3_Witness ==
    /\ Returned
    /\ Len(notebook.cells) = 2
    /\ given.heap[1] # given.heap[2]

\* C4: no cell of a returned document has 'outputs' or 'execution_count'.
C4_NoExecutionState ==
    Returned =>
        \A k \in 1..Len(notebook.cells) :
            /\ ~CellsOf(notebook)[k].has_outputs
            /\ ~CellsOf(notebook)[k].has_execution_count

C4_Witness ==
    /\ Returned
    /\ \E r \in Refs(notebook.cells) :
           /\ given.heap[r].cell_type = "markdown"
           /\ given.heap[r].has_outputs
           /\ given.heap[r].has_execution_count
    /\ \E r \in Refs(notebook.cells) :
           /\ given.heap[r].cell_type = "code"
           /\ given.heap[r].has_outputs
           /\ ~CarriesClear(given.heap[r])

\* C8: get_option_value reports the option as declared exactly when a line naming
\* it stands among the marker lines of the leading block; a directive after
\* ordinary body text is not detected.
C8_LeadingBlockScan ==
    (scan.done /\ scan.cell.cell_type \in {"code", "markdown"}) =>
        (scan.result.enabled <=> DeclaredInLeadingBlock(scan.cell, scan.option))

\* The option is found on the second line, after a marker line naming another one.
C8_Witness ==
    /\ scan.done
    /\ scan.result.enabled
    /\ Len(TextLines(scan.cell)) = 2
    /\ LineIsMarker(TextLines(scan.cell)[1], scan.cell.cell_type)
    /\ ~LineNames(TextLines(scan.cell)[1], scan.cell.cell_type, scan.option)
    /\ LineNames(TextLines(scan.cell)[1], scan.cell.cell_type, omt)

\* (should_note, note_info) of the input cell, under the options of the call.
NoteOf(c) == should_note_cell(c, options.note_tag)

\* The concatenated source of an input cell.
OriginalText(c) == IF c.source.form = "absent" THEN <<>> ELSE Join(c.source.parts)

\* C5: every entry of the notes collection holds the original concatenated source
\* of a noted input cell, directive line included, and not the text written into
\* the output cell; also for a source given as a list of fragments.
C5_NotesHoldOriginal ==
    \A k \in 1..Len(notes_dict) :
        \E r \in Refs(processed_cells) :
            /\ NoteOf(given.heap[r]).given
            /\ NoteOf(given.heap[r]).note_id = notes_dict[k].key
            /\ notes_dict[k].cell_type = given.heap[r].cell_type
            /\ notes_dict[k].source = OriginalText(given.heap[r])
            /\ \E j \in 1..Len(SplitLines(notes_dict[k].source)) :
                   LineNames(SplitLines(notes_dict[k].source)[j], "code", options.note_tag)
            /\ notes_dict[k].source # SourceText(heap[r])
            /\ ~EndsWith(notes_dict[k].source, NoteReference(notes_dict[k].key))

C5_Witness ==
    /\ Returned
    /\ \E k \in 1..Len(notes_dict) :
           \E r \in Refs(notebook.cells) :
               /\ given.heap[r].source.form = "list"
               /\ Len(given.heap[r].source.parts) = 2
               /\ notes_dict[k].source = OriginalText(given.heap[r])
               /\ EndsWith(SourceText(heap[r]), NoteReference(notes_dict[k].key))

\* The replacement text of a cleared cell: the explicit text of its inline clear
\* directive when that has a value, the configured default otherwise.
ClearText(c) ==
    IF DeclaredInline(c, clr) /\ get_option_value(c, clr).has_text
    THEN get_option_value(c, clr).text
    ELSE options.clear_text

\* C6: a cleared cell that is neither omitted nor noted has as content exactly its
\* replacement text followed by one newline, as a single string.
C6_ClearedContent ==
    \A r \in Refs(processed_cells) :
        (CarriesClear(given.heap[r]) /\ ~NoteOf(given.heap[r]).given) =>
            heap[r].source = StrSource(ClearText(given.heap[r]) \o <<"\n">>)

C6_Witness ==
    /\ Returned
    /\ options.clear_text # clear_text_default
    /\ \E r \in Refs(notebook.cells) :
           /\ get_option_value(given.heap[r], clr) = DeclaredWith(<<>>)
           /\ heap[r].source = StrSource(<<"\n">>)
    /\ \E r \in Refs(notebook.cells) :
           /\ HasTag(given.heap[r], clr) /\ ~DeclaredInline(given.heap[r], clr)
           /\ heap[r].source = StrSource(options.clear_text \o <<"\n">>)

\* The content the note path writes: the replacement after the first ' | ' when
\* there is one, the configured default otherwise, then the reference comment.
NotedContent(c) ==
    (IF NoteOf(c).has_replacement THEN NoteOf(c).replacement ELSE options.clear_text)
        \o <<"\n", "#", " ", "(", "See", " ", "notes", ":", " ">>
        \o NoteOf(c).note_id \o <<")", "\n">>

NoteEntry(key, c) == [key |-> key, cell_type |-> "code", source |-> OriginalText(c)]

\* C7 as stated: every noted cell of a returned document has the note content, and
\* the notes collection maps its identifier to ('code', the cell's own original
\* content).
C7_NotedCellAndOwnEntry ==
    Returned =>
        \A r \in Refs(notebook.cells) :
            NoteOf(given.heap[r]).given =>
                /\ heap[r].source = StrSource(NotedContent(given.heap[r]))
                /\ NoteOf(given.heap[r]).note_id \in DictKeys(notes_dict)
                /\ DictGet(notes_dict, NoteOf(given.heap[r]).note_id)
                       = NoteEntry(NoteOf(given.heap[r]).note_id, given.heap[r])

\* The last processed cell noted under the identifier of cell r.
LastNoted(r) ==
    CHOOSE m \in Refs(processed_cells) :
        /\ NoteOf(given.heap[m]).given
        /\ NoteOf(given.heap[m]).note_id = NoteOf(given.heap[r]).note_id
        /\ \A n \in Refs(processed_cells) :
               (NoteOf(given.heap[n]).given
                  /\ NoteOf(given.heap[n]).note_id = NoteOf(given.heap[r]).note_id) => n <= m

\* C7 (amended): every noted cell has the note content, and the notes collection
\* maps its identifier to ('code', original content of the last processed cell
\* noted under that identifier): the cell's own unless a later cell reuses it.
C7_NotedCellAndLastEntry ==
    \A r \in Refs(processed_cells) :
        NoteOf(given.heap[r]).given =>
            /\ given.heap[r].cell_type = "code"
            /\ heap[r].source = StrSource(NotedContent(given.heap[r]))
            /\ NoteOf(given.heap[r]).note_id \in DictKeys(notes_dict)
            /\ DictGet(notes_dict, NoteOf(given.heap[r]).note_id)
                   = NoteEntry(NoteOf(given.heap[r]).note_id, given.heap[LastNoted(r)])

\* Two cells noted under one identifier, the second with a replacement text.
C7_Witness ==
    /\ Returned
    /\ Len(notebook.cells) = 2
    /\ NoteOf(given.heap[1]).given /\ ~NoteOf(given.heap[1]).has_replacement
    /\ NoteOf(given.heap[2]).given /\ NoteOf(given.heap[2]).has_replacement
    /\ NoteOf(given.heap[1]).note_id = NoteOf(given.heap[2]).note_id
    /\ OriginalText(given.heap[1]) # OriginalText(given.heap[2])
    /\ heap[1].source = StrSource(NotedContent(given.heap[1]))
    /\ heap[2].source = StrSource(NotedContent(given.heap[2]))
    /\ Len(notes_dict) = 1
    /\ notes_dict[1].source = OriginalText(given.heap[2])

\* What validation must reject, stated on the input document.
InvalidInput ==
    \/ ~given.notebook.has_cells
    \/ ~given.notebook.cells_is_list
    \/ \E r \in 1..InputCount :
           \/ given.heap[r].form # "dict"
           \/ ~given.heap[r].has_cell_type
           \/ given.heap[r].cell_type \notin {"code", "markdown", "raw"}

Untouched == notebook = given.notebook /\ heap = given.heap

\* C9: a document that is invalid (no 'cells', 'cells' no list, or a cell at any
\* position that is no object, has no kind or an unknown kind) is never iterated:
\* the call is still validating or has failed with InvalidNotebookError, with the
\* document and every cell as given and nothing returned or collected.
C9_ValidationFirst ==
    /\ InvalidInput =>
           /\ pc \in {"validate", "InvalidNotebookError"}
           /\ Untouched
           /\ processed_cells = <<>> /\ notes_dict = <<>>
    /\ pc = "InvalidNotebookError" => (InvalidInput \/ given.notebook.form # "dict")
    /\ pc = "validate" => Untouched

\* The invalid cell is the second one; the first would have been rewritten.
C9_Witness ==
    /\ pc = "InvalidNotebookError"
    /\ InputCount = 2
    /\ given.heap[1].has_outputs /\ CarriesClear(given.heap[1])
    /\ given.heap[2].has_cell_type
    /\ given.heap[2].cell_type = "invalid_type"

\* C10: after a processing failure on a validated document, the document's cell
\* list, every cell and the metadata are as they were before the call.
C10_UnmodifiedOnFailure == pc = "ProcessingError" => Untouched

\* C11: every returned document has exercise_version = true in its metadata, the
\* rest of the metadata as given; also when the cell list is empty (the output
\* list is empty then) and when every cell is omitted.
C11_ExerciseVersion ==
    Returned =>
        /\ notebook.metadata.exercise_version = TRUE
        /\ notebook.metadata = [given.notebook.metadata EXCEPT !.exercise_version = TRUE]
        /\ InputCount = 0 => notebook.cells = <<>>

\* Every cell of the document is omitted.
C11_Witness ==
    /\ Returned
    /\ InputCount = 2
    /\ \A r \in 1..InputCount : ClassifiedOmit(given.heap[r])
    /\ notebook.cells = <<>>
    /\ ~given.notebook.metadata.exercise_version
    /\ notebook.metadata.exercise_version

\* The cell is a code cell with a line naming the note directive in its leading
\* block of marker lines.
NoteDirectiveInCode(c) == c.cell_type = "code" /\ DeclaredInLeadingBlock(c, nte)

\* The content ends with the reference comment of the note path.
HasReference(c) ==
    Contains(SourceText(c), <<"#", " ", "(", "See", " ", "notes", ":">>)

\* The output cell r is what the clear/keep logic makes of the input cell: the
\* replacement text and a newline if the cell carries clear, its content if not.
KeptOrCleared(r) ==
    heap[r].source = IF CarriesClear(given.heap[r])
                     THEN StrSource(ClearText(given.heap[r]) \o <<"\n">>)
                     ELSE given.heap[r].source

\* C12: every entry of the notes collection has kind 'code' and holds the content
\* of a code cell with an inline note directive; a markdown or raw cell with the
\* note directive, and a cell with the note name only as a structural tag, is not
\* rewritten by the note path (no reference comment; kept or cleared as usual).
C12_NotesOnlyFromCode ==
    /\ \A k \in 1..Len(notes_dict) :
           /\ notes_dict[k].cell_type = "code"
           /\ \E r \in Refs(processed_cells) :
                  /\ NoteDirectiveInCode(given.heap[r])
                  /\ notes_dict[k].source = OriginalText(given.heap[r])
    /\ \A r \in Refs(processed_cells) :
           ~NoteDirectiveInCode(given.heap[r]) =>
               /\ ~HasReference(heap[r])
               /\ KeptOrCleared(r)

\* A markdown cell with the note directive, a raw cell with it and a code cell
\* with the note tag are in the returned document, and nothing was noted.
C12_Witness ==
    /\ Returned
    /\ \E r \in Refs(notebook.cells) :
           /\ given.heap[r].cell_type = "markdown"
           /\ DeclaredInLeadingBlock(given.heap[r], nte)
    /\ \E r \in Refs(notebook.cells) :
           /\ given.heap[r].cell_type = "raw"
           /\ LineNames(TextLines(given.heap[r])[1], "code", nte)
    /\ \E r \in Refs(notebook.cells) :
           /\ given.heap[r].cell_type = "code"
           /\ HasTag(given.heap[r], nte)
    /\ notes_dict = <<>>

\* The identifier of a note directive's value: the text before the first ' | ',
\* trimmed.
NoteIdentifier(value) ==
    Strip(IF Contains(value, <<" ", "|", " ">>)
          THEN SubSeq(value, 1, IndexOf(value, <<" ", "|", " ">>) - 1)
          ELSE value)

\* A code cell whose note directive has no value or an empty identifier.
UnidentifiedNote(c) ==
    /\ NoteDirectiveInCode(c)
    /\ \/ ~get_option_value(c, nte).has_text
       \/ NoteIdentifier(get_option_value(c, nte).text) = <<>>

\* The input cell the loop is at.
CurrentInput == given.heap[notebook.cells[idx]]

\* C13: a code cell whose note directive has no value or an empty identifier is
\* not noted: it adds no entry (no entry has an empty identifier or holds the
\* cell's content), gets no reference comment, is kept or cleared as usual, and
\* the loop does not fail at it (given an options object with a note tag).
C13_NoIdentifierNotNoted ==
    /\ \A k \in 1..Len(notes_dict) :
           /\ notes_dict[k].key # <<>>
           /\ \A r \in 1..InputCount :
                  UnidentifiedNote(given.heap[r])
                      => notes_dict[k].source # OriginalText(given.heap[r])
    /\ \A r \in Refs(processed_cells) :
           UnidentifiedNote(given.heap[r]) =>
               /\ ~HasReference(heap[r])
               /\ KeptOrCleared(r)
    /\ (pc = "ProcessingError" /\ idx <= InputCount /\ UnidentifiedNote(CurrentInput))
           => ~options.has_note_tag

\* Two returned cells with a note directive without identifier: one is kept as it
\* was, one is cleared with the text of its clear directive.
C13_Witness ==
    /\ Returned
    /\ notes_dict = <<>>
    /\ \E r \in Refs(notebook.cells) :
           /\ UnidentifiedNote(given.heap[r])
           /\ ~get_option_value(given.heap[r], nte).has_text
           /\ heap[r].source = given.heap[r].source
    /\ \E r \in Refs(notebook.cells) :
           /\ UnidentifiedNote(given.heap[r])
           /\ get_option_value(given.heap[r], nte) = DeclaredWith(<<>>)
           /\ heap[r].source = StrSource(<<"X", "\n">>)

\* The processed cells noted under an identifier.
NotedAs(id) ==
    {r \in Refs(processed_cells) :
        /\ NoteDirectiveInCode(given.heap[r])
        /\ ~UnidentifiedNote(given.heap[r])
        /\ NoteIdentifier(get_option_value(given.heap[r], nte).text) = id}

Max(S) == CHOOSE m \in S : \A n \in S : n <= m

\* C15: when several non-omitted code cells declare the same note identifier, the
\* call does not fail for it, and the notes collection has exactly one entry for
\* the identifier, holding the original content of the last such cell.
C15_LastWriteWins ==
    /\ \A id \in {<<"a">>, <<"b">>} :
           NotedAs(id) # {} =>
               /\ Cardinality({k \in 1..Len(notes_dict) : notes_dict[k].key = id}) = 1
               /\ DictGet(notes_dict, id).source = OriginalText(given.heap[Max(NotedAs(id))])
    /\ pc = "ProcessingError" => (~options.has_note_tag \/ ~given.notebook.has_metadata)
    /\ (Returned \/ pc = "iterate") =>
           Len(notes_dict) = Cardinality({id \in {<<"a">>, <<"b">>} : NotedAs(id) # {}})

\* Three cells declare one identifier; the entry holds the content of the third.
C15_Witness ==
    /\ Returned
    /\ Len(notebook.cells) = 3
    /\ Cardinality(NotedAs(<<"a">>)) = 3
    /\ OriginalText(given.heap[2]) # OriginalText(given.heap[3])
    /\ Len(notes_dict) = 1
    /\ notes_dict[1].source = OriginalText(given.heap[3])

\* C14 as stated: the cell after the second call of process_cell is identical to
\* the cell the first call returned.
C14_Idempotent == twice.calls = 2 => twice.again = twice.once

\* The text the clear path writes for a cell that carries clear.
ReplacementText(c, opts) ==
    IF DeclaredInline(c, clr) /\ get_option_value(c, clr).has_text
    THEN get_option_value(c, clr).text
    ELSE opts.clear_text

\* The second call clears the cell with another text than the first: the cell has
\* the clear tag and an inline clear directive with a text that is not the default
\* text, or the text written by the first call declares a clear directive itself.
ClearedAnew(c, opts) ==
    \/ /\ HasTag(c, clr)
       /\ DeclaredInline(c, clr)
       /\ get_option_value(c, clr).has_text
       /\ get_option_value(c, clr).text # opts.clear_text
    \/ /\ c.cell_type \in {"code", "markdown"}
       /\ CarriesClear(c)
       /\ DeclaredInLeadingBlock(
              [c EXCEPT !.source = StrSource(ReplacementText(c, opts) \o <<"\n">>)], clr)

\* C14 (amended): the second call leaves the kind, the metadata and the (absent)
\* execution state as the first call returned them, and the content too, unless
\* the cell is not noted and the second call clears it anew.
C14_IdempotentUnlessClearedAnew ==
    twice.calls = 2 =>
        /\ [twice.again EXCEPT !.source = twice.once.source] = twice.once
        /\ ~twice.again.has_outputs /\ ~twice.again.has_execution_count
        /\ (twice.note_info.given \/ ~ClearedAnew(twice.cell, twice.options))
               => twice.again = twice.once

\* An executed cell with the clear tag: the first call changes it, the second
\* does not.
C14_Witness ==
    /\ twice.calls = 2
    /\ ~twice.note_info.given
    /\ HasTag(twice.cell, clr) /\ ~DeclaredInline(twice.cell, clr)
    /\ twice.cell.has_outputs /\ twice.cell.has_execution_count
    /\ twice.once.source = StrSource(twice.options.clear_text \o <<"\n">>)
    /\ twice.once # twice.cell
    /\ twice.again = twice.once

\* The document has everything process_notebook needs and a code cell that is not
\* omitted and declares a note with an identifier: its notes collection, from an
\* options object with the tag names given, is not empty.
YieldsNotes(file, omit_tag, note_tag) ==
    /\ file.exists /\ file.json_ok
    /\ validate_notebook(file.notebook, file.heap)
    /\ file.notebook.has_metadata
    /\ \A k \in 1..Len(file.heap) :
           ~should_omit_cell_raises(file.heap[k]) /\ ~should_note_cell_raises(file.heap[k])
    /\ \E k \in 1..Len(file.heap) :
           /\ ~should_omit_cell(file.heap[k], omit_tag)
           /\ should_note_cell(file.heap[k], note_tag).given

Warned == \E k \in 1..Len(stderr) : stderr[k].kind = "UserWarning"

\* C16: scrub-notebook without --notes-file, on a document that yields notes,
\* ends with status 0, having printed the warning and written the transformed
\* document (the noted cells with their reference comment) and no notes file.
C16_WarningOnly ==
    (/\ args.command = "scrub-notebook"
     /\ step = "exit"
     /\ args.notes_file = "None"
     /\ YieldsNotes(files["stdin"], args.omit_tag, args.note_tag)) =>
        /\ status = "0"
        /\ Warned
        /\ ~files["notes.md"].exists
        /\ files["stdout"].exists
        /\ \E k \in 1..Len(files["stdout"].heap) : HasReference(files["stdout"].heap[k])

\* The run ended in the loop, at the entry file_entry.
EndedAtEntry == step = "exit" /\ config.loaded /\ file_entry <= Len(config.files)

LastPrinted == stderr[Len(stderr)]

\* The note tag the configuration asks for: 'note-tag' of [options], the default
\* name when the table or the key is missing.
ConfiguredNoteTag ==
    IF config_file.data.has_options
    THEN Get(config_file.data.options.note_tag, note_tag_default)
    ELSE note_tag_default

\* C17: scrub-project, at an entry without notes file whose document yields notes,
\* stops with status 1, reports the note tag and the missing notes-file, and does
\* not write the output document of the entry.
C17_MissingNotesFileReported ==
    (/\ args.command = "scrub-project"
     /\ EndedAtEntry
     /\ ~config_file.data.files[file_entry].notes_file.given
     /\ YieldsNotes(FileAt(entry.input), options.omit_tag, ConfiguredNoteTag)) =>
        /\ status = "1"
        /\ LastPrinted.kind = "Error processing"
        /\ LastPrinted.text = "Found cell(s) with note tag, but no notes-file specified in config"
        /\ ~\E k \in 1..Len(io) : io[k].op = "write" /\ io[k].entry = file_entry

\* The input of an entry is missing, no JSON, or no valid notebook.
BadInput(e) ==
    \/ ~FileAt(e.input).exists
    \/ ~FileAt(e.input).json_ok
    \/ ~FileAt(e.input).notebook.has_cells
    \/ ~FileAt(e.input).notebook.cells_is_list

IoOf(k) == SelectSeq(io, LAMBDA o : o.entry = k)

ReadOf(k) == [op |-> "read", path |-> config.files[k].input, entry |-> k]

WriteOf(k) == [op |-> "write", path |-> config.files[k].output, entry |-> k]

\* C18: the entries are read and written one at a time in the order of the
\* configuration (entry k is read, then written, before entry k + 1 is read); the
\* loop does not go past an entry that fails; a run that ends at entry k has
\* status 1, has touched no entry after k and has not written k, and the outputs
\* of the entries before k are in place; status 0 means every entry was written.
C18_FailFastInOrder ==
    config.loaded =>
        /\ \A i, j \in 1..Len(io) : i < j => io[i].entry <= io[j].entry
        /\ \A k \in 1..Len(config.files) :
               /\ k < file_entry => IoOf(k) = <<ReadOf(k), WriteOf(k)>>
               /\ k < file_entry => ~BadInput(config.files[k])
               /\ k < file_entry => FileAt(config.files[k].output).exists
               /\ k = file_entry => IoOf(k) \in {<<>>, <<ReadOf(k)>>}
               /\ k > file_entry => IoOf(k) = <<>>
        /\ EndedAtEntry => status = "1"
        /\ status = "1" => EndedAtEntry
        /\ status = "0" => file_entry = Len(config.files) + 1
        /\ \A p \in OutputPaths :
               FileAt(p).exists => \E k \in 1..Len(io) : io[k] = [op |-> "write", path |-> p,
                                                                  entry |-> io[k].entry]

\* The first entry was written, the second failed in process_notebook.
C18_Witness ==
    /\ EndedAtEntry
    /\ status = "1"
    /\ file_entry = 2
    /\ pc = "ProcessingError"
    /\ io = <<ReadOf(1), WriteOf(1), ReadOf(2)>>
    /\ FileAt(config.files[1].output).exists
    /\ FileAt(config.files[1].output).notebook.metadata.exercise_version
    /\ ~FileAt(config.files[2].output).exists

\* What is wrong with the configuration, stated on the config file: no config
\* file, no TOML, no section, no entry, an entry without 'input' or 'output'.
ConfigFailure ==
    \/ config_file.name = "None"
    \/ ~config_file.exists
    \/ ~config_file.toml_ok
    \/ config_file.name = "pyproject.toml" /\ ~config_file.has_section
    \/ config_file.data.files = <<>>
    \/ \E k \in 1..Len(config_file.data.files) :
           \/ ~config_file.data.files[k].input.given
           \/ ~config_file.data.files[k].output.given

\* C19: with a configuration failure, no document is read and no output is
\* written, at any time, and the run ends with status 1.
C19_ConfigCheckedFirst ==
    (args.command = "scrub-project" /\ ConfigFailure) =>
        /\ io = <<>>
        /\ \A p \in OutputPaths : ~FileAt(p).exists
        /\ pc = "idle"
        /\ step \in {"load", "exit"}
        /\ step = "exit" => status = "1"

\* The second entry has no 'output'; the first one is complete and its input is
\* a document that would have been written.
C19_Witness ==
    /\ step = "exit"
    /\ status = "1"
    /\ config_file.toml_ok
    /\ Len(config_file.data.files) = 2
    /\ config_file.data.files[1].input.given /\ config_file.data.files[1].output.given
    /\ FileAt(config_file.data.files[1].input.value) = DocEmpty
    /\ ~config_file.data.files[2].output.given
    /\ LastPrinted.text = "File entry missing required field: output"
    /\ io = <<>>

OptionFields == {"clear_tag", "clear_text", "omit_tag"}

BuiltIn ==
    [f \in OptionFields |->
        IF f = "clear_tag" THEN <<"scrub-clear">>
        ELSE IF f = "omit_tag" THEN <<"scrub-omit">>
        ELSE <<"#", " ", "TODO", ":", " ", "Implement", " ", "this">>]

\* The global value of a field: that of the [options] table, the built-in default
\* when the table or the key is missing.
GlobalValue(f) ==
    IF config_file.data.has_options /\ config_file.data.options[f].given
    THEN config_file.data.options[f].value
    ELSE BuiltIn[f]

\* C20: the options an entry is processed with have, field by field, the value
\* of the entry's own table if it has the key with a non-empty value, and the
\* global value otherwise, whatever the other entries override.
C20_OptionsMerged ==
    (args.command = "scrub-project" /\ step = "process") =>
        \A f \in OptionFields :
            LET own == config_file.data.files[file_entry][f]
            IN  options[f] = IF own.given /\ own.value # <<>> THEN own.value
                             ELSE GlobalValue(f)

\* The first entry overrides the clear tag and the omit tag and has an empty
\* clear text; the second entry, without overrides, gets the global values.
C20_Witness ==
    /\ step = "process"
    /\ file_entry = 2
    /\ config_file.data.has_options
    /\ config_file.data.files[1].clear_tag = Some(<<"my-clear">>)
    /\ config_file.data.files[1].omit_tag = Some(<<"skip">>)
    /\ config_file.data.files[1].clear_text = Some(<<>>)
    /\ \A f \in OptionFields : ~config_file.data.files[2][f].given
    /\ options.clear_tag = <<"scrub-clear">>
    /\ options.omit_tag = <<"skip">>
    /\ options.clear_text = <<"#", " ", "your", " ", "code">>

\* The run is through with entry k: it went on to the next one, or ended at it.
ThroughWith(k) ==
    /\ config.loaded
    /\ k \in 1..Len(config.files)
    /\ k < file_entry \/ (k = file_entry /\ step = "exit")

\* C21: the options an entry is processed with carry the note tag of the global
\* options (the default name when none is set); an entry with a notes file whose
\* document has a code cell, not omitted, with '#| <note-tag>: id' has the cell
\* noted, and once the run is through with the entry its notes file and its output
\* are written.
C21_NoteTagResolved ==
    args.command = "scrub-project" =>
        /\ step = "process" =>
               /\ options.has_note_tag
               /\ options.note_tag = ConfiguredNoteTag
        /\ \A k \in 1..Len(config_file.data.files) :
               (/\ ThroughWith(k)
                /\ config_file.data.files[k].notes_file.given
                /\ YieldsNotes(FileAt(config.files[k].input),
                               get_options(config.files[k], config.global_options).omit_tag,
                               ConfiguredNoteTag)) =>
                   /\ \E i \in 1..Len(io) :
                          io[i] = [op |-> "write", entry |-> k,
                                   path |-> config_file.data.files[k].notes_file.value]
                   /\ \E i \in 1..Len(io) : io[i] = WriteOf(k)

\* What the claim calls a qualifying file of a directory: .ipynb-scrubber.toml, or
\* a pyproject.toml that can be read and has the section [tool.ipynb-scrubber].
HasSection(pyproject) ==
    /\ pyproject.exists
    /\ pyproject.toml_ok
    /\ pyproject.has_tool
    /\ pyproject.tool.type = "table"
    /\ "ipynb-scrubber" \in pyproject.tool.keys

Qualifies(dir) == dir.standalone \/ HasSection(dir.pyproject)

\* The nearest directory that qualifies, 0 when none does.
Nearest ==
    LET hits == {k \in 1..Len(config_file.dirs) : Qualifies(config_file.dirs[k])}
    IN  IF hits = {} THEN 0 ELSE CHOOSE k \in hits : \A j \in hits : k <= j

\* C22: find_config_file returns the file of the nearest directory, from the start
\* directory up to the root, that qualifies: its .ipynb-scrubber.toml if it has
\* one, its pyproject.toml otherwise; a pyproject.toml that cannot be read or has
\* no section [tool.ipynb-scrubber] is skipped; it returns None when no directory
\* qualifies; and it never looks beyond the root.
C22_NearestQualifying ==
    args.command = "find_config_file" =>
        /\ config_file.current \in 1..Len(config_file.dirs)
        /\ step = "returned" =>
               /\ config_file.found = Nearest
               /\ Nearest = 0 => config_file.name = "None"
               /\ Nearest # 0 =>
                      config_file.name = IF config_file.dirs[Nearest].standalone
                                         THEN ".ipynb-scrubber.toml" ELSE "pyproject.toml"

\* The walk ends.
Discovery_Terminates == <>(step = "returned")

\* C23: a code cell, not omitted, that is noted and carries clear (the clear tag,
\* an inline clear directive, or both) has as content the note substitution with
\* its reference comment, not the text the clear path would write, and its
\* identifier is in the notes collection (with the cell's original content, as
\* long as no later cell has declared the identifier again).
C23_NoteOverClear ==
    \A r \in Refs(processed_cells) :
        (/\ NoteDirectiveInCode(given.heap[r])
         /\ ~UnidentifiedNote(given.heap[r])
         /\ CarriesClear(given.heap[r])) =>
            /\ heap[r].source = StrSource(NotedContent(given.heap[r]))
            /\ EndsWith(SourceText(heap[r]),
                        NoteReference(NoteIdentifier(get_option_value(given.heap[r], nte).text)))
            /\ heap[r].source # StrSource(ClearText(given.heap[r]) \o <<"\n">>)
            /\ \E k \in 1..Len(notes_dict) :
                   /\ notes_dict[k].key
                          = NoteIdentifier(get_option_value(given.heap[r], nte).text)
                   /\ r = Max(Refs(processed_cells))
                          => notes_dict[k].source = OriginalText(given.heap[r])

\* A noted cell with the clear tag and a noted cell with a clear directive that
\* has a text: the text 'X' is in neither output.
C23_Witness ==
    /\ Returned
    /\ Len(notebook.cells) = 2
    /\ NoteOf(given.heap[1]).given /\ HasTag(given.heap[1], clr)
    /\ ~DeclaredInline(given.heap[1], clr)
    /\ heap[1].source = StrSource(options.clear_text \o NoteReference(<<"a">>))
    /\ NoteOf(given.heap[2]).given /\ DeclaredInline(given.heap[2], clr)
    /\ get_option_value(given.heap[2], clr) = DeclaredWith(<<"X">>)
    /\ NoteOf(given.heap[2]).has_replacement
    /\ heap[2].source = StrSource(<<"pass">> \o NoteReference(<<"b">>))
    /\ DictKeys(notes_dict) = {<<"a">>, <<"b">>}

\* A cell classified omit that is a code cell with a note directive naming an
\* identifier.
OmittedNote(c) ==
    /\ ClassifiedOmit(c)
    /\ NoteDirectiveInCode(c)
    /\ ~UnidentifiedNote(c)

\* C24: a cell that is omitted and note-eligible is dropped and its note is never
\* captured: no entry of the notes collection holds its content, and its
\* identifier is in the collection only if a processed (not omitted) cell
\* declares the same identifier.
C24_OmittedNoteNotCaptured ==
    \A r \in 1..InputCount :
        OmittedNote(given.heap[r]) =>
            /\ r \notin Refs(processed_cells)
            /\ heap[r] = given.heap[r]
            /\ \A k \in 1..Len(notes_dict) :
                   notes_dict[k].source # OriginalText(given.heap[r])
            /\ NoteIdentifier(get_option_value(given.heap[r], nte).text) \in DictKeys(notes_dict)
                   => NotedAs(NoteIdentifier(get_option_value(given.heap[r], nte).text)) # {}

\* The omitted cell declares 'a', the other cell is noted under 'b': the notes
\* collection has 'b' only.
C24_Witness ==
    /\ Returned
    /\ InputCount = 2
    /\ OmittedNote(given.heap[1])
    /\ NoteIdentifier(get_option_value(given.heap[1], nte).text) = <<"a">>
    /\ notebook.cells = <<2>>
    /\ DictKeys(notes_dict) = {<<"b">>}

\* The value of the first line of the leading block that names the option: the
\* text after the first ':' of the option part, left-trimmed; has_text is FALSE
\* when the line has no ':'.
DirectiveValue(c, option) ==
    LET ls == TextLines(c)
        k == CHOOSE i \in 1..Len(ls) :
                 /\ LineNames(ls[i], c.cell_type, option)
                 /\ \A j \in 1..(i - 1) : ~LineNames(ls[j], c.cell_type, option)
        part == OptionPart(Strip(ls[k]), start_marker(c.cell_type), end_suffix(c.cell_type))
    IN  IF Contains(part, <<":">>)
        THEN [has_text |-> TRUE,
              text |-> LStrip(SubSeq(part, IndexOf(part, <<":">>) + 1, Len(part)))]
        ELSE [has_text |-> FALSE, text |-> <<>>]

\* The cell was processed and went through the clear path, not the note path.
ClearPath(r) == r \in Refs(processed_cells) /\ ~NoteOf(given.heap[r]).given

\* C25: for a code or markdown cell with the clear tag and an inline clear
\* directive the directive decides: should_clear_cell gives (True, text) with the
\* directive's text, (True, None) when it has none, and the cleared cell holds
\* that text, or the default text, and a newline; the tag alone gives
\* (True, None) and the default text, for a cell of any kind.
C25_InlineClearWins ==
    \A r \in 1..InputCount :
        LET c == given.heap[r]
        IN  /\ (c.cell_type \in {"code", "markdown"} /\ HasTag(c, clr)
                   /\ DeclaredInLeadingBlock(c, clr)) =>
                   /\ should_clear_cell(c, options.clear_tag).enabled
                   /\ should_clear_cell(c, options.clear_tag).has_text
                          = DirectiveValue(c, clr).has_text
                   /\ should_clear_cell(c, options.clear_tag).text = DirectiveValue(c, clr).text
                   /\ ClearPath(r) =>
                          heap[r].source =
                              StrSource((IF DirectiveValue(c, clr).has_text
                                         THEN DirectiveValue(c, clr).text
                                         ELSE options.clear_text) \o <<"\n">>)
            /\ (HasTag(c, clr) /\ ~DeclaredInline(c, clr)) =>
                   /\ should_clear_cell(c, options.clear_tag) = DeclaredDefault
                   /\ ClearPath(r) =>
                          heap[r].source = StrSource(options.clear_text \o <<"\n">>)

\* A tagged markdown cell with the directive text 'X' and a tagged code cell with
\* a directive without text, under a default text that is not the built-in one.
C25_Witness ==
    /\ Returned
    /\ Len(notebook.cells) = 2
    /\ options.clear_text = <<"pass">>
    /\ given.heap[1].cell_type = "markdown"
    /\ HasTag(given.heap[1], clr) /\ DeclaredInline(given.heap[1], clr)
    /\ heap[1].source = StrSource(<<"X", "\n">>)
    /\ given.heap[2].cell_type = "code"
    /\ HasTag(given.heap[2], clr) /\ DeclaredInline(given.heap[2], clr)
    /\ ~DirectiveValue(given.heap[2], clr).has_text
    /\ heap[2].source = StrSource(<<"pass", "\n">>)

\* The first line of the content is a marker line, of a code or of a markdown
\* cell, naming the option.
StartsWithMarkerOf(c, option) ==
    \/ LineNames(TextLines(c)[1], "code", option)
    \/ LineNames(TextLines(c)[1], "markdown", option)

\* The loop is through with the input cell r.
Passed(r) == pc \in {"iterate", "returned"} /\ r < idx

\* C26: a raw cell is dropped exactly if it has the omit tag, is cleared (with
\* the default text) exactly if it is kept and has the clear tag, and keeps its
\* content as given otherwise, whatever marker line its content starts with; no
\* notes entry is of kind 'raw'.
C26_RawIgnoresInline ==
    /\ \A r \in 1..InputCount :
           (given.heap[r].cell_type = "raw" /\ Passed(r)) =>
               /\ r \in Refs(processed_cells) <=> ~HasTag(given.heap[r], omt)
               /\ r \in Refs(processed_cells) =>
                      heap[r].source = IF HasTag(given.heap[r], clr)
                                       THEN StrSource(options.clear_text \o <<"\n">>)
                                       ELSE given.heap[r].source
    /\ \A k \in 1..Len(notes_dict) : notes_dict[k].cell_type # "raw"

\* A raw cell starting with a note marker line is kept as it is; a tagged raw
\* cell starting with '#| scrub-clear: X' is cleared with the default text.
C26_Witness ==
    /\ Returned
    /\ Len(notebook.cells) = 2
    /\ given.heap[1].cell_type = "raw" /\ given.heap[2].cell_type = "raw"
    /\ StartsWithMarkerOf(given.heap[1], nte)
    /\ heap[1].source = given.heap[1].source
    /\ StartsWithMarkerOf(given.heap[2], clr)
    /\ HasTag(given.heap[2], clr)
    /\ heap[2].source = StrSource(options.clear_text \o <<"\n">>)
    /\ notes_dict = <<>>

\* C28: a processed cell has the kind and the metadata (the tags, the clear tag
\* too) of the input cell; if it is neither cleared nor noted it has the content
\* of the input cell as it was given (a list of fragments is the same list); the
\* returned document is the given one but for its cell list and
\* exercise_version.
C28_Frame ==
    /\ \A r \in Refs(processed_cells) :
           /\ heap[r].form = given.heap[r].form
           /\ heap[r].has_cell_type = given.heap[r].has_cell_type
           /\ heap[r].cell_type = given.heap[r].cell_type
           /\ heap[r].metadata = given.heap[r].metadata
           /\ (~CarriesClear(given.heap[r]) /\ ~NoteOf(given.heap[r]).given)
                  => heap[r].source = given.heap[r].source
    /\ Returned =>
           [notebook EXCEPT !.metadata.exercise_version = FALSE, !.cells = <<>>]
               = [given.notebook EXCEPT !.metadata.exercise_version = FALSE, !.cells = <<>>]

\* A cleared code cell still has its clear tag; a code cell with another tag and
\* a list of two fragments as content has both as given, without its outputs.
C28_Witness ==
    /\ Returned
    /\ Len(notebook.cells) = 2
    /\ heap[1].source # given.heap[1].source
    /\ HasTag(heap[1], clr)
    /\ given.heap[2].has_outputs /\ ~heap[2].has_outputs
    /\ given.heap[2].source.form = "list"
    /\ Len(heap[2].source.parts) = 2
    /\ heap[2].source = given.heap[2].source
    /\ HasTag(heap[2], <<"keep">>)
    /\ notebook.metadata.kernelspec = "python3"

Min(S) == CHOOSE m \in S : \A n \in S : m <= n

Written == step = "written"

\* Where the heading of an identifier stands in the notes file, 0 if nowhere.
HeadingAt(id) == IndexOf(files["notes.md"].text, <<"\n", "##", " ">> \o id \o <<"\n">>)

\* The cell the content of the entry of an identifier came from: the last
\* processed cell declaring it.
ContentCell(id) == Max(NotedAs(id))

\* C27 as stated: of any two entries, the one whose content came from the earlier
\* cell stands first in the notes collection and is rendered first.
C27_ProcessingOrder ==
    Written =>
        \A i, j \in 1..Len(notes_dict) :
            ContentCell(notes_dict[i].key) < ContentCell(notes_dict[j].key) =>
                /\ i < j
                /\ HeadingAt(notes_dict[i].key) < HeadingAt(notes_dict[j].key)

\* C27 (amended): the entries are in the order in which their identifiers were
\* first declared by a processed cell, in the collection and in the rendering
\* (every entry is rendered); the content of an entry is that of the last cell
\* declaring its identifier, so with no identifier declared twice the order is
\* that of the cells the contents came from.
C27_FirstDeclarationOrder ==
    /\ \A i, j \in 1..Len(notes_dict) :
           i < j <=> Min(NotedAs(notes_dict[i].key)) < Min(NotedAs(notes_dict[j].key))
    /\ \A i \in 1..Len(notes_dict) :
           notes_dict[i].source = OriginalText(given.heap[Max(NotedAs(notes_dict[i].key))])
    /\ Written =>
           \A i, j \in 1..Len(notes_dict) :
               /\ HeadingAt(notes_dict[i].key) # 0
               /\ i < j => HeadingAt(notes_dict[i].key) < HeadingAt(notes_dict[j].key)

\* 'a' is declared by the first and the third cell, 'b' by the second: the entry
\* of 'a' holds the content of the third cell and is rendered before 'b'.
C27_Witness ==
    /\ Written
    /\ NotedAs(<<"a">>) = {1, 3}
    /\ NotedAs(<<"b">>) = {2}
    /\ OriginalText(given.heap[1]) # OriginalText(given.heap[3])
    /\ notes_dict[1].key = <<"a">>
    /\ notes_dict[1].source = OriginalText(given.heap[3])
    /\ notes_dict[2].key = <<"b">>
    /\ HeadingAt(<<"a">>) # 0
    /\ HeadingAt(<<"a">>) < HeadingAt(<<"b">>)

\* The identifiers declared by a note directive of an input cell, omitted or not.
DeclaredIds ==
    {NoteIdentifier(get_option_value(given.heap[r], nte).text) :
        r \in {q \in 1..InputCount : /\ NoteDirectiveInCode(given.heap[q])
                                     /\ ~UnidentifiedNote(given.heap[q])}}

\* The content of the cell ends with the reference comment naming the identifier.
References(c, id) == EndsWith(SourceText(c), NoteReference(id))

\* The output cells that were rewritten by the note path: made from a code cell
\* with a note directive naming an identifier.
NotedOutputs ==
    {r \in Refs(notebook.cells) : /\ NoteDirectiveInCode(given.heap[r])
                                  /\ ~UnidentifiedNote(given.heap[r])}

\* The identifiers the reference comments of these cells name.
ReferencedIds ==
    {id \in DeclaredIds \cup DictKeys(notes_dict) :
        \E r \in NotedOutputs : References(heap[r], id)}

\* C29: in a returned document, the identifiers of the notes collection are the
\* identifiers named by the reference comments of the output cells rewritten by
\* the note path: every such cell names the identifier it declared, which is in
\* the collection, and every identifier of the collection is named by one.
C29_NotesMatchReferences ==
    Returned =>
        /\ DictKeys(notes_dict) = ReferencedIds
        /\ \A r \in NotedOutputs :
               /\ NoteIdentifier(get_option_value(given.heap[r], nte).text)
                      \in DictKeys(notes_dict)
               /\ References(heap[r],
                             NoteIdentifier(get_option_value(given.heap[r], nte).text))

\* 'a' and 'b' are declared by cells of the output, 'c' by an omitted cell only.
C29_Witness ==
    /\ Returned
    /\ InputCount = 3
    /\ DeclaredIds = {<<"a">>, <<"b">>, <<"c">>}
    /\ Len(notebook.cells) = 2
    /\ DictKeys(notes_dict) = {<<"a">>, <<"b">>}
    /\ ReferencedIds = {<<"a">>, <<"b">>}

\* The position in io of the first write to a path, 0 if there is none.
WrittenAt(path) ==
    LET hits == {k \in 1..Len(io) : io[k].op = "write" /\ io[k].path = path}
    IN  IF hits = {} THEN 0 ELSE CHOOSE k \in hits : \A j \in hits : k <= j

\* C30: a scrub-notebook run with --notes-file on a document that yields notes
\* ends either with the notes file written, the transformed document written
\* after it and status 0, or, the notes file having failed to be written, with
\* that failure reported, no document on stdout and status 1; the document is
\* never written without the notes file written before it.
C30_NotesBeforeDocument ==
    (/\ args.command = "scrub-notebook"
     /\ args.notes_file # "None"
     /\ YieldsNotes(files["stdin"], args.omit_tag, args.note_tag)) =>
        /\ WrittenAt("stdout") # 0 =>
               WrittenAt(args.notes_file) # 0 /\ WrittenAt(args.notes_file) < WrittenAt("stdout")
        /\ step = "exit" =>
               \/ /\ WrittenAt(args.notes_file) # 0
                  /\ WrittenAt("stdout") # 0
                  /\ status = "0"
               \/ /\ LastPrinted = [kind |-> "Error", text |-> "Error writing notes file"]
                  /\ WrittenAt("stdout") = 0
                  /\ status = "1"

====
